---- MODULE Spec2Model ----
(***************************************************************************)
(* A model of the await-tree span-tree state machine: the arena tree of    *)
(* src/src/context.rs, driven by the Instrumented wrapper of               *)
(* src/src/future.rs, under the task-local binding of src/src/root.rs.     *)
(*                                                                         *)
(* A poll of a wrapper is split at the one place where it calls into user  *)
(* code, the inner poll: PollEnter is everything up to `this.inner.poll`,  *)
(* PollReturn everything after it.  Between the two, the inner future may  *)
(* create, poll and drop other wrappers (the poll stack of the task).      *)
(***************************************************************************)
EXTENDS Integers, Sequences, FiniteSets, TLC

\* ------------------------------------------------------------------ bounds
NumWrappers == 3
NumContexts == 2
MaxClock == 1

Wrappers == 1..NumWrappers
Contexts == 1..NumContexts
\* Task t > 0 is the computation instrumented by the TreeRoot of context t;
\* task 0 runs outside of any TreeRoot::instrument scope.
Tasks == 0..NumContexts

NoNode == 0
NoContext == 0
NoHolder == -1

VARIABLES
    contexts,   \* [Contexts -> TreeContext {id, verbose, tree}]
    mutex,      \* [Contexts -> holder of TreeContext::tree's Mutex, or NoHolder]
    wrappers,   \* [Wrappers -> Instrumented {state, inner, ...}]
    stack,      \* [Tasks -> the wrappers whose poll is in its inner poll, outermost first]
    now,        \* coarsetime::Instant::now()
    panicked,   \* an expect / debug_assert_eq / unreachable of the crate has fired
    actor,      \* history: the task that has run the last poll, drop or spawn step
    registries, \* [RegistryIds -> RegistryCore {config, contexts}, and whether it exists]
    roots       \* [context -> its TreeRoot: where it is, and its registry]

regvars == <<registries, roots>>

vars == <<contexts, mutex, wrappers, stack, now, panicked, actor, registries, roots>>

\* ------------------------------------------------------------------- Span
\* Span::new: both attributes false.  Every span of the model has the same
\* name: the tree never reads it.
SpanName == 1

Span(name) == [name |-> name, is_verbose |-> FALSE, is_long_running |-> FALSE]

\* Span::verbose
SpanVerbose(span) == [span EXCEPT !.is_verbose = TRUE]

\* Span::long_running
SpanLongRunning(span) == [span EXCEPT !.is_long_running = TRUE]

\* The span left behind by std::mem::take (Span: Default).
NoSpan == [name |-> 0, is_verbose |-> FALSE, is_long_running |-> FALSE]

\* ------------------------------------------------------- indextree::Arena
\* A NodeId is the position of the node in the arena; a node keeps the link to
\* its parent and the ordered list of its children (first child first).
\* A node stamped with the start of the clock instead of the current time.
SpanNodeAtEpoch(span, t) ==
    [span |-> span, start_time |-> 0, removed |-> FALSE,
     parent |-> NoNode, children |-> <<>>]

SpanNode(span, t) ==
    [span |-> span, start_time |-> t, removed |-> FALSE,
     parent |-> NoNode, children |-> <<>>]

SeqWithout(s, x) == SelectSeq(s, LAMBDA y : y # x)

SeqToSet(s) == {s[i] : i \in 1..Len(s)}

\* The position of x in s (x occurs in s).
IndexOf(s, x) == CHOOSE i \in 1..Len(s) : s[i] = x

\* Arena::new_node: the new node is parentless and childless.
NewNode(arena, span, t) == Append(arena, SpanNode(span, t))

\* NodeId::detach: unlink the node from its parent, keeping its children.
Detach(arena, n) ==
    LET p == arena[n].parent IN
    IF p = NoNode THEN arena
    ELSE [arena EXCEPT ![p].children = SeqWithout(@, n), ![n].parent = NoNode]

\* NodeId::prepend fails (and the callers' expect panics) on these.
PrependFails(arena, p, n) == p = n \/ arena[p].removed \/ arena[n].removed

\* NodeId::prepend: detach the new child, then make it the first child of p.
Prepend(arena, p, n) ==
    LET a == Detach(arena, n) IN
    [a EXCEPT ![p].children = <<n>> \o @, ![n].parent = p]

\* A remove that marks the slot and leaves the links of the node in it.
RemoveKeepingLinks(arena, n) ==
    LET p == arena[n].parent
        kids == arena[n].children
        a1 == [i \in 1..Len(arena) |->
                 IF i \in SeqToSet(kids) THEN [arena[i] EXCEPT !.parent = p]
                 ELSE arena[i]]
    IN [a1 EXCEPT ![n].removed = TRUE]

\* NodeId::remove: the children of the removed node take its place under its
\* parent (they become parentless when it has none); the slot is marked removed
\* and its data is dropped.
Remove(arena, n) ==
    LET p == arena[n].parent
        kids == arena[n].children
        a1 == [i \in 1..Len(arena) |->
                 IF i \in SeqToSet(kids) THEN [arena[i] EXCEPT !.parent = p]
                 ELSE arena[i]]
        a2 == IF p = NoNode THEN a1
              ELSE LET cs == arena[p].children
                       k == IndexOf(cs, n)
                   IN [a1 EXCEPT ![p].children =
                          SubSeq(cs, 1, k - 1) \o kids \o SubSeq(cs, k + 1, Len(cs))]
    IN [a2 EXCEPT ![n] = [SpanNode(NoSpan, 0) EXCEPT !.removed = TRUE]]

\* ------------------------------------------------------------------- Tree
Nodes(tree) == 1..Len(tree.arena)

LiveNodes(tree) == {n \in Nodes(tree) : ~tree.arena[n].removed}

\* Tree::active_node_count
active_node_count(tree) == Cardinality(LiveNodes(tree))

\* Tree::detached_roots
detached_roots(tree) ==
    {n \in LiveNodes(tree) : n # tree.root /\ tree.arena[n].parent = NoNode}

\* Tree::detached_node_count
detached_node_count(tree) ==
    Cardinality({n \in Nodes(tree) :
        /\ ~tree.arena[n].removed
        /\ tree.arena[n].parent = NoNode
        /\ n # tree.root})

\* Tree::current
current(tree) == tree.current

\* Tree::push
push(tree, span, t) ==
    LET child == Len(tree.arena) + 1
        a == NewNode(tree.arena, span, t)
    IN [tree EXCEPT !.arena = Prepend(a, tree.current, child), !.current = child]

\* step_in that never re-parents: it only moves current.
step_in_without_reparenting(tree, child) == [tree EXCEPT !.current = child]

\* Tree::step_in
step_in(tree, child) ==
    IF child \notin SeqToSet(tree.arena[tree.current].children)
    THEN [tree EXCEPT !.arena = Prepend(tree.arena, tree.current, child),
                      !.current = child]
    ELSE [tree EXCEPT !.current = child]

\* step_in's prepend panics
step_in_panics(tree, child) ==
    /\ child \notin SeqToSet(tree.arena[tree.current].children)
    /\ PrependFails(tree.arena, tree.current, child)

\* remove_and_detach that detaches the node and forgets to remove it.
detach_without_remove(tree, node) ==
    [tree EXCEPT !.arena = Detach(tree.arena, node)]

\* remove_and_detach that forgets to detach the node first: indextree then
\* hands the children of the removed node to its parent.
remove_without_detach(tree, node) ==
    [tree EXCEPT !.arena = Remove(tree.arena, node)]

\* Tree::remove_and_detach
remove_and_detach(tree, node) ==
    [tree EXCEPT !.arena = Remove(Detach(tree.arena, node), node)]

\* The expect of Tree::pop and of Tree::step_out fails.
no_parent(tree) == tree.arena[tree.current].parent = NoNode

\* pop that only steps out and leaves the node in the tree.
pop_without_remove(tree) ==
    [tree EXCEPT !.current = tree.arena[tree.current].parent]

\* Tree::pop
\* A pop observed after the node is removed and before current is moved.
pop_leaving_current(tree) == remove_and_detach(tree, tree.current)

pop(tree) ==
    LET parent == tree.arena[tree.current].parent IN
    [remove_and_detach(tree, tree.current) EXCEPT !.current = parent]

\* step_out that leaves current where it is.
step_out_staying(tree) == tree

\* step_out that removes the node on the way out, as pop does.
step_out_removing(tree) == pop(tree)

\* Tree::step_out
step_out(tree) == [tree EXCEPT !.current = tree.arena[tree.current].parent]

\* ------------------------------------------------------------ TreeContext
\* TreeContext::new: the root span is forced long-running and is the only
\* node; current = root.
TreeContextNew(id, root_span, verbose, t) ==
    [id |-> id,
     verbose |-> verbose,
     tree |-> [arena |-> <<SpanNode(SpanLongRunning(root_span), t)>>,
               root |-> 1, current |-> 1]]

\* A ROOT that is one global for all tasks instead of a task-local: every
\* task with a root sees the context of the first.
current_context_shared(t) ==
    IF t \in DOMAIN roots
    THEN IF roots[1].life = "running" THEN 1 ELSE NoContext
    ELSE NoContext

\* current_context(): the context of the TreeRoot bound to the task, if any.
current_context(t) ==
    IF t \in DOMAIN roots
    THEN IF roots[t].life = "running" THEN t ELSE NoContext
    ELSE NoContext

\* A context whose memory is not allocated, or is freed.
NoTreeContext == TreeContextNew(NoContext, NoSpan, FALSE, 0)

\* ---------------------------------------------------------------- Registry
\* The registries of a run: one made by the user with Registry::new, and
\* GLOBAL_REGISTRY.
RegistryIds == {"local", "global"}

NoRegistry == "none"

\* The concrete types of the keys that users register with, and their values.
KeyTypes == {"i32", "str"}

MaxKeyValue == 1

KeyValues == 0..MaxKeyValue

\* AnyKey::new(key): the key behind `dyn ObjKey`, with its concrete type.
AnyKey(type, value) == [type |-> type, value |-> value]

UserKeys == {AnyKey(type, value) : type \in KeyTypes, value \in KeyValues}

\* AnonymousKey(ContextId), a type private to the crate.
AnonymousKey(id) == AnyKey("AnonymousKey", id)

\* A downcast that succeeds for every type.
is_of_any_type(key, type) == TRUE

\* AnyKey::is
is(key, type) == key.type = type

\* AnyKey::is_anonymous
is_anonymous(key) == is(key, "AnonymousKey")

\* Keys compared by their values alone, whatever their types.
dyn_eq_by_value(a, b) == a.value = b.value

\* DynEq::dyn_eq: the other key downcast to the type of this one, then ==.
dyn_eq(a, b) == IF is(b, a.type) THEN a.value = b.value ELSE FALSE

\* An insert that adds the entry next to the ones of the same key.
InsertKeepingOld(map, key, c) == map \cup {[key |-> key, context |-> c]}

\* WeakValueHashMap::insert: the entry of an equal key is replaced.
Insert(map, key, c) ==
    {e \in map : ~dyn_eq(e.key, key)} \cup {[key |-> key, context |-> c]}

\* Config::default(): verbose is false.
ConfigDefault == FALSE

\* Registry::new
RegistryNew(verbose) == [alive |-> TRUE, verbose |-> verbose, contexts |-> {}]

\* A registry that does not exist: GLOBAL_REGISTRY not set, or the last
\* Registry handle dropped.
NoRegistryCore == [alive |-> FALSE, verbose |-> FALSE, contexts |-> {}]

\* No TreeRoot made for this context yet.
NoRoot == [life |-> "none", registry |-> NoRegistry]

\* TreeRoot {context, registry}, as register_inner returns it.
TreeRoot(registry) == [life |-> "held", registry |-> registry]

\* The end of the instrumented computation that leaves its TreeRoot behind.
TreeRootKept(root) == [root EXCEPT !.life = "held"]

\* The TreeRoot is dropped.
TreeRootDropped(root) == [root EXCEPT !.life = "dropped"]

\* A weak reference that upgrades although the TreeRoot is gone.
UpgradesAlways(c) == roots[c].life # "none"

\* Weak<TreeContext>::upgrade succeeds: the TreeRoot, the one strong owner of
\* the context, still exists.
Upgrades(c) == roots[c].life \in {"held", "running"}

\* The entries a read of the WeakValueHashMap sees: those whose value upgrades.
LiveEntries(reg) == {e \in registries[reg].contexts : Upgrades(e.context)}

\* `v.tree().clone()` of an entry.
Snapshot(e) == [key |-> e.key, context |-> e.context, tree |-> contexts[e.context].tree]

\* Registry::get: the set is empty for None, and holds the snapshot for Some.
get(reg, key) == {Snapshot(e) : e \in {e \in LiveEntries(reg) : dyn_eq(e.key, key)}}

\* Registry::collect::<K>
collect(reg, K) == {Snapshot(e) : e \in {e \in LiveEntries(reg) : is(e.key, K)}}

\* Registry::collect_anonymous
collect_anonymous(reg) ==
    {Snapshot(e) : e \in {e \in LiveEntries(reg) : is_anonymous(e.key)}}

\* Registry::collect_all
collect_all(reg) == {Snapshot(e) : e \in LiveEntries(reg)}

\* global_registry()
global_registry == IF registries["global"].alive THEN "global" ELSE NoRegistry

\* current_registry that never looks at GLOBAL_REGISTRY.
current_registry_local_only(t) ==
    IF current_context(t) = NoContext THEN NoRegistry
    ELSE IF registries[roots[t].registry].alive THEN roots[t].registry
         ELSE NoRegistry

\* current_registry that falls back to the registry made by the user, whether
\* it still exists or not.
current_registry_or_local(t) ==
    LET local == IF current_context(t) = NoContext THEN NoRegistry
                 ELSE IF registries[roots[t].registry].alive
                      THEN roots[t].registry
                      ELSE NoRegistry
    IN IF local # NoRegistry THEN local
       ELSE IF global_registry # NoRegistry THEN global_registry ELSE "local"

\* current_registry(), which is Registry::try_current(): the registry of the
\* TreeRoot bound to the task if it upgrades, or else the global one.
current_registry(t) ==
    LET local == IF current_context(t) = NoContext THEN NoRegistry
                 ELSE IF registries[roots[t].registry].alive
                      THEN roots[t].registry
                      ELSE NoRegistry
    IN IF local # NoRegistry THEN local ELSE global_registry

\* Registry::current(): `try_current().expect(..)`.
current_panics(t) == current_registry(t) = NoRegistry

\* current_tree(): a clone of the tree of the task, if it has one.
current_tree(t) ==
    IF current_context(t) = NoContext THEN {}
    ELSE {contexts[current_context(t)].tree}

\* The guard kept in a local: the task still holds the mutex after the
\* statement.
GuardKept(t) == t

\* The MutexGuard returned by TreeContext::tree() is a temporary of the
\* statement `c.tree().op(..)`: it is released when the statement ends.
GuardAfterStatement(t) == NoHolder

\* ----------------------------------------------------------- Instrumented
\* A wrapper that has not been created yet, or whose memory is gone.
NoWrapper ==
    [life |-> "none", state |-> "Initial", span |-> NoSpan, this_node |-> NoNode,
     this_context |-> NoContext, VERBOSE |-> FALSE, inner |-> "none",
     out |-> "none"]

\* Instrumented::new: state Initial(span) around a future not polled yet.
InstrumentedNew(span, verbose_const) ==
    [NoWrapper EXCEPT !.life = "alive", !.span = span, !.VERBOSE = verbose_const]

\* The wrappers whose poll is inside its inner poll, in any task.
OnStack(w) == \E t \in DOMAIN stack : \E i \in 1..Len(stack[t]) : stack[t][i].w = w

\* A frame of the poll stack: the wrapper and whether this poll updates the tree
\* (it pushed or stepped in); on that path, `old_current` of the debug
\* assertion, whether this poll is the one that pushed the node, and the node
\* count measured right before the poll.
Frame(w, in_tree, old_current, first, n_before) ==
    [w |-> w, in_tree |-> in_tree, old_current |-> old_current,
     first |-> first, n_before |-> n_before]

\* The frame of a poll that goes straight to `return this.inner.poll(cx)`.
DirectFrame(w) == Frame(w, FALSE, NoNode, FALSE, 0)

\* The verbose setting of the context is not consulted.
VerboseAlwaysEnabled(context_verbose, verbose_const) == TRUE

\* `c.verbose() >= VERBOSE` on bools (false < true).
VerboseEnabled(context_verbose, verbose_const) == verbose_const => context_verbose

\* The match arm `Some(current_context) if current_context == *this_context`.
ContextCorrect(c, w) ==
    IF c = NoContext THEN FALSE ELSE contexts[c].id = wrappers[w].this_context

\* poll that swallows the result of the inner poll.
PollOutputPending(inner_result) == "pending"

\* What poll returns on the paths that `return this.inner.poll(cx)`, and on
\* the tree path (`Poll::Ready(output)` / `Poll::Pending`).
PollOutput(inner_result) == inner_result

\* -------------------------------------------------------------------- Init
Init ==
    /\ \E v \in BOOLEAN :
          contexts = [c \in Contexts |-> TreeContextNew(c, Span(0), v, 0)]
    /\ mutex = [c \in Contexts |-> NoHolder]
    /\ wrappers = [w \in Wrappers |-> NoWrapper]
    /\ stack = [t \in Tasks |-> <<>>]
    /\ now = 0
    /\ panicked = FALSE
    /\ actor = 1
    /\ registries =
          [r \in RegistryIds |->
              IF r = "local"
              THEN [RegistryNew(contexts[1].verbose) EXCEPT !.contexts =
                       {[key |-> AnonymousKey(c), context |-> c] : c \in Contexts}]
              ELSE NoRegistryCore]
    /\ roots = [c \in Contexts |-> [TreeRoot("local") EXCEPT !.life = "running"]]

\* ----------------------------------------------------------------- actions
\* The coarse clock advances.
Tick ==
    /\ ~panicked
    /\ now < MaxClock
    /\ now' = now + 1
    /\ UNCHANGED <<contexts, mutex, wrappers, stack, panicked, actor>>
    /\ UNCHANGED regvars

\* Wrappers are created in the order of their numbers.
Creatable(w) ==
    /\ ~panicked
    /\ wrappers[w].life = "none"
    /\ \A v \in Wrappers : v < w => wrappers[v].life # "none"

\* InstrumentAwait::instrument_await(span): Instrumented<_, false>; the span is
\* plain, or made verbose by Span::verbose.
InstrumentAwait(w, span_verbose) ==
    /\ Creatable(w)
    /\ LET span == IF span_verbose THEN SpanVerbose(Span(SpanName)) ELSE Span(SpanName) IN
       wrappers' = [wrappers EXCEPT ![w] = InstrumentedNew(span, FALSE)]
    /\ UNCHANGED <<contexts, mutex, stack, now, panicked, actor>>
    /\ UNCHANGED regvars

\* InstrumentAwait::verbose_instrument_await(span): Instrumented<_, true>.
VerboseInstrumentAwait(w) ==
    /\ Creatable(w)
    /\ wrappers' = [wrappers EXCEPT ![w] = InstrumentedNew(Span(SpanName), TRUE)]
    /\ UNCHANGED <<contexts, mutex, stack, now, panicked, actor>>
    /\ UNCHANGED regvars

\* A wrapper may be polled: it exists, no poll of it is running, and its inner
\* future has not completed.
Pollable(w) ==
    /\ ~panicked
    /\ wrappers[w].life = "alive"
    /\ ~OnStack(w)
    /\ wrappers[w].inner # "ready"

\* Instrumented::poll up to the inner poll, state Initial, no context bound.
PollInitialNoContext(t, w) ==
    /\ Pollable(w)
    /\ wrappers[w].state = "Initial"
    /\ current_context(t) = NoContext
    /\ stack' = [stack EXCEPT ![t] = Append(@, DirectFrame(w))]
    /\ UNCHANGED <<contexts, mutex, wrappers, now, panicked>>
    /\ actor' = t
    /\ UNCHANGED regvars

\* Instrumented::poll up to the inner poll, state Initial, in a context whose
\* verbose setting disables the span.
PollInitialDisabled(t, w) ==
    LET c == current_context(t) IN
    /\ Pollable(w)
    /\ wrappers[w].state = "Initial"
    /\ c # NoContext
    /\ ~VerboseEnabled(contexts[c].verbose, wrappers[w].VERBOSE)
    /\ mutex[c] = NoHolder
    /\ wrappers' = [wrappers EXCEPT ![w].state = "Disabled", ![w].span = NoSpan,
                                    ![w].VERBOSE = FALSE]
    /\ stack' = [stack EXCEPT ![t] = Append(@, DirectFrame(w))]
    /\ mutex' = [mutex EXCEPT ![c] = GuardAfterStatement(t)]
    /\ UNCHANGED <<contexts, now, panicked>>
    /\ actor' = t
    /\ UNCHANGED regvars

\* Instrumented::poll up to the inner poll, state Initial, first poll in a
\* context: push.
PollInitialPush(t, w) ==
    LET c == current_context(t) IN
    /\ Pollable(w)
    /\ wrappers[w].state = "Initial"
    /\ c # NoContext
    /\ VerboseEnabled(contexts[c].verbose, wrappers[w].VERBOSE)
    /\ mutex[c] = NoHolder
    /\ LET tree == contexts[c].tree
           pushed == push(tree, wrappers[w].span, now)
           node == current(pushed)
       IN /\ contexts' = [contexts EXCEPT ![c].tree = pushed]
          /\ wrappers' = [wrappers EXCEPT ![w].state = "Polled",
                                          ![w].span = NoSpan,
                                          ![w].VERBOSE = FALSE,
                                          ![w].this_node = node,
                                          ![w].this_context = contexts[c].id]
          /\ stack' = [stack EXCEPT ![t] = Append(@,
                          Frame(w, TRUE, current(tree), TRUE, active_node_count(tree)))]
    /\ mutex' = [mutex EXCEPT ![c] = GuardAfterStatement(t)]
    /\ UNCHANGED <<now, panicked>>
    /\ actor' = t
    /\ UNCHANGED regvars

\* Instrumented::poll up to the inner poll, state Polled, same context: step_in.
PollPolledStepIn(t, w) ==
    LET c == current_context(t) IN
    /\ Pollable(w)
    /\ wrappers[w].state = "Polled"
    /\ ContextCorrect(c, w)
    /\ mutex[c] = NoHolder
    /\ LET tree == contexts[c].tree
           node == wrappers[w].this_node
       IN IF step_in_panics(tree, node)
          THEN /\ panicked' = TRUE
               /\ UNCHANGED <<contexts, stack>>
          ELSE /\ contexts' = [contexts EXCEPT ![c].tree = step_in(tree, node)]
               /\ stack' = [stack EXCEPT ![t] = Append(@,
                               Frame(w, TRUE, current(tree), FALSE,
                                     active_node_count(tree)))]
               /\ panicked' = (node # current(step_in(tree, node)))
    /\ mutex' = [mutex EXCEPT ![c] = GuardAfterStatement(t)]
    /\ UNCHANGED <<wrappers, now>>
    /\ actor' = t
    /\ UNCHANGED regvars

\* The poll in another context that goes on to step into the node, in the tree
\* the node belongs to.
PollPolledElsewhereSteppingIn(t, w) ==
    LET home == wrappers[w].this_context IN
    /\ Pollable(w)
    /\ wrappers[w].state = "Polled"
    /\ ~ContextCorrect(current_context(t), w)
    /\ contexts' = [contexts EXCEPT
          ![home].tree = [@ EXCEPT !.current = wrappers[w].this_node]]
    /\ stack' = [stack EXCEPT ![t] = Append(@, DirectFrame(w))]
    /\ actor' = t
    /\ UNCHANGED <<mutex, wrappers, now, panicked>>
    /\ UNCHANGED regvars

\* Instrumented::poll up to the inner poll, state Polled, polled in another
\* context or outside of any: warn and poll directly.
PollPolledElsewhere(t, w) ==
    LET c == current_context(t) IN
    /\ Pollable(w)
    /\ wrappers[w].state = "Polled"
    /\ ~ContextCorrect(c, w)
    /\ IF c = NoContext THEN TRUE ELSE mutex[c] = NoHolder
    /\ stack' = [stack EXCEPT ![t] = Append(@, DirectFrame(w))]
    /\ mutex' = IF c = NoContext THEN mutex
                ELSE [mutex EXCEPT ![c] = GuardAfterStatement(t)]
    /\ UNCHANGED <<contexts, wrappers, now, panicked>>
    /\ actor' = t
    /\ UNCHANGED regvars

\* A poll in state Disabled that looks at the verbose setting of the ambient
\* context again and pushes the span when that setting is on.
PollDisabledRechecking(t, w) ==
    LET c == current_context(t) IN
    /\ Pollable(w)
    /\ wrappers[w].state = "Disabled"
    /\ IF c = NoContext THEN TRUE ELSE mutex[c] = NoHolder
    /\ IF c # NoContext /\ contexts[c].verbose
       THEN LET tree == contexts[c].tree
                pushed == push(tree, wrappers[w].span, now)
            IN /\ contexts' = [contexts EXCEPT ![c].tree = pushed]
               /\ wrappers' = [wrappers EXCEPT ![w].state = "Polled",
                                               ![w].this_node = current(pushed),
                                               ![w].this_context = contexts[c].id]
               /\ stack' = [stack EXCEPT ![t] = Append(@,
                               Frame(w, TRUE, current(tree), TRUE,
                                     active_node_count(tree)))]
       ELSE /\ stack' = [stack EXCEPT ![t] = Append(@, DirectFrame(w))]
            /\ UNCHANGED <<contexts, wrappers>>
    /\ mutex' = IF c = NoContext THEN mutex
                ELSE [mutex EXCEPT ![c] = GuardAfterStatement(t)]
    /\ UNCHANGED <<now, panicked>>
    /\ actor' = t
    /\ UNCHANGED regvars

\* Instrumented::poll up to the inner poll, state Disabled.
PollDisabled(t, w) ==
    LET c == current_context(t) IN
    /\ Pollable(w)
    /\ wrappers[w].state = "Disabled"
    /\ IF c = NoContext THEN TRUE ELSE mutex[c] = NoHolder
    /\ stack' = [stack EXCEPT ![t] = Append(@, DirectFrame(w))]
    /\ mutex' = IF c = NoContext THEN mutex
                ELSE [mutex EXCEPT ![c] = GuardAfterStatement(t)]
    /\ UNCHANGED <<contexts, wrappers, now, panicked>>
    /\ actor' = t
    /\ UNCHANGED regvars

\* The innermost running poll of task t.
Top(t) == stack[t][Len(stack[t])]

\* Instrumented::poll after the inner poll returned r, on the path that pushed
\* or stepped in: pop on Ready, step_out on Pending, then the debug assertion
\* that current is what it was at entry.
PollReturnTree(t, r) ==
    /\ ~panicked
    /\ stack[t] # <<>>
    /\ Top(t).in_tree
    /\ LET w == Top(t).w
           c == current_context(t)
           tree == contexts[c].tree
           after == IF r = "ready" THEN pop(tree) ELSE step_out(tree)
       IN /\ mutex[c] = NoHolder
          /\ IF no_parent(tree)
             THEN /\ panicked' = TRUE
                  /\ UNCHANGED <<contexts, wrappers, stack>>
             ELSE /\ contexts' = [contexts EXCEPT ![c].tree = after]
                  /\ wrappers' = [wrappers EXCEPT
                        ![w].state = IF r = "ready" THEN "Ready" ELSE @,
                        ![w].this_node = IF r = "ready" THEN NoNode ELSE @,
                        ![w].this_context = IF r = "ready" THEN NoContext ELSE @,
                        ![w].inner = r,
                        ![w].out = PollOutput(r)]
                  /\ stack' = [stack EXCEPT ![t] = SubSeq(@, 1, Len(@) - 1)]
                  /\ panicked' = (Top(t).old_current # current(after))
          /\ mutex' = [mutex EXCEPT ![c] = GuardAfterStatement(t)]
    /\ UNCHANGED now
    /\ actor' = t
    /\ UNCHANGED regvars

\* A direct return that marks the wrapper Ready when the inner poll is Ready.
PollReturnDirectFinishing(t, r) ==
    /\ ~panicked
    /\ stack[t] # <<>>
    /\ ~Top(t).in_tree
    /\ wrappers' = [wrappers EXCEPT
          ![Top(t).w].state = IF r = "ready" /\ @ = "Polled" THEN "Ready" ELSE @,
          ![Top(t).w].inner = r,
          ![Top(t).w].out = PollOutput(r)]
    /\ stack' = [stack EXCEPT ![t] = SubSeq(@, 1, Len(@) - 1)]
    /\ UNCHANGED <<contexts, mutex, now, panicked>>
    /\ actor' = t
    /\ UNCHANGED regvars

\* Instrumented::poll on the paths that `return this.inner.poll(cx)`: the inner
\* poll returned r.
PollReturnDirect(t, r) ==
    /\ ~panicked
    /\ stack[t] # <<>>
    /\ ~Top(t).in_tree
    /\ wrappers' = [wrappers EXCEPT ![Top(t).w].inner = r,
                                    ![Top(t).w].out = PollOutput(r)]
    /\ stack' = [stack EXCEPT ![t] = SubSeq(@, 1, Len(@) - 1)]
    /\ UNCHANGED <<contexts, mutex, now, panicked>>
    /\ actor' = t
    /\ UNCHANGED regvars

\* A dropped wrapper is gone; what is kept is the state it was dropped in.
Dropped(wrapper) == [NoWrapper EXCEPT !.life = "dropped", !.state = wrapper.state]

\* A wrapper dropped in state Polled without cleaning up is gone as well; what
\* is kept is the record of the node it has left in its tree.
DroppedLeaking(wrapper) ==
    [Dropped(wrapper) EXCEPT !.this_node = wrapper.this_node,
                             !.this_context = wrapper.this_context]

\* A wrapper may be dropped: it exists and no poll of it is running.
Droppable(w) ==
    /\ ~panicked
    /\ wrappers[w].life = "alive"
    /\ ~OnStack(w)

\* Instrumented::drop, state Polled, dropped in the context of the first poll.
DropPolledInContext(t, w) ==
    LET c == current_context(t) IN
    /\ Droppable(w)
    /\ wrappers[w].state = "Polled"
    /\ ContextCorrect(c, w)
    /\ mutex[c] = NoHolder
    /\ contexts' = [contexts EXCEPT
          ![c].tree = remove_and_detach(@, wrappers[w].this_node)]
    /\ mutex' = [mutex EXCEPT ![c] = GuardAfterStatement(t)]
    /\ wrappers' = [wrappers EXCEPT ![w] = Dropped(@)]
    /\ UNCHANGED <<stack, now, panicked>>
    /\ actor' = t
    /\ UNCHANGED regvars

\* The drop in another context that cleans up all the same, in the tree the
\* node belongs to.
DropPolledElsewhereCleaning(t, w) ==
    /\ Droppable(w)
    /\ wrappers[w].state = "Polled"
    /\ ~ContextCorrect(current_context(t), w)
    /\ contexts' = [contexts EXCEPT ![wrappers[w].this_context].tree =
                       remove_and_detach(@, wrappers[w].this_node)]
    /\ wrappers' = [wrappers EXCEPT ![w] = DroppedLeaking(@)]
    /\ actor' = t
    /\ UNCHANGED <<mutex, stack, now, panicked>>
    /\ UNCHANGED regvars

\* Instrumented::drop, state Polled, dropped in another context or in none:
\* warn, the node is left in its tree.
DropPolledElsewhere(t, w) ==
    /\ Droppable(w)
    /\ wrappers[w].state = "Polled"
    /\ ~ContextCorrect(current_context(t), w)
    /\ wrappers' = [wrappers EXCEPT ![w] = DroppedLeaking(@)]
    /\ UNCHANGED <<contexts, mutex, stack, now, panicked>>
    /\ actor' = t
    /\ UNCHANGED regvars

\* Instrumented::drop, states Initial, Ready and Disabled.
DropOther(t, w) ==
    /\ Droppable(w)
    /\ wrappers[w].state \in {"Initial", "Ready", "Disabled"}
    /\ wrappers' = [wrappers EXCEPT ![w] = Dropped(@)]
    /\ UNCHANGED <<contexts, mutex, stack, now, panicked>>
    /\ actor' = t
    /\ UNCHANGED regvars

PollResults == {"pending", "ready"}

\* --------------------------------------------------------- specifications
\* Spec: one instrumented task, the computation passed to
\* TreeRoot::instrument of the first context; every wrapper is created, polled
\* and dropped inside it.
MainTask == 1

Next ==
    \/ Tick
    \/ \E w \in Wrappers : \E span_verbose \in BOOLEAN : InstrumentAwait(w, span_verbose)
    \/ \E w \in Wrappers : VerboseInstrumentAwait(w)
    \/ \E w \in Wrappers : PollInitialDisabled(MainTask, w)
    \/ \E w \in Wrappers : PollInitialPush(MainTask, w)
    \/ \E w \in Wrappers : PollPolledStepIn(MainTask, w)
    \/ \E w \in Wrappers : PollDisabled(MainTask, w)
    \/ \E r \in PollResults : PollReturnTree(MainTask, r)
    \/ \E r \in PollResults : PollReturnDirect(MainTask, r)
    \/ \E w \in Wrappers : DropPolledInContext(MainTask, w)
    \/ \E w \in Wrappers : DropOther(MainTask, w)

Spec == Init /\ [][Next]_vars

\* SpecCross: the instrumented tasks of all contexts and a task outside of any
\* context run concurrently, and hand NumCrossWrappers wrappers to each other.
NumCrossWrappers == 2

CrossWrappers == 1..NumCrossWrappers

NextCross ==
    \/ Tick
    \/ \E w \in CrossWrappers : \E span_verbose \in BOOLEAN : InstrumentAwait(w, span_verbose)
    \/ \E w \in CrossWrappers : VerboseInstrumentAwait(w)
    \/ \E t \in Tasks : \E w \in Wrappers : PollInitialNoContext(t, w)
    \/ \E t \in Tasks : \E w \in Wrappers : PollInitialDisabled(t, w)
    \/ \E t \in Tasks : \E w \in Wrappers : PollInitialPush(t, w)
    \/ \E t \in Tasks : \E w \in Wrappers : PollPolledStepIn(t, w)
    \/ \E t \in Tasks : \E w \in Wrappers : PollPolledElsewhere(t, w)
    \/ \E t \in Tasks : \E w \in Wrappers : PollDisabled(t, w)
    \/ \E t \in Tasks : \E r \in PollResults : PollReturnTree(t, r)
    \/ \E t \in Tasks : \E r \in PollResults : PollReturnDirect(t, r)
    \/ \E t \in Tasks : \E w \in Wrappers : DropPolledInContext(t, w)
    \/ \E t \in Tasks : \E w \in Wrappers : DropPolledElsewhere(t, w)
    \/ \E t \in Tasks : \E w \in Wrappers : DropOther(t, w)

SpecCross == Init /\ [][NextCross]_vars

\* SpecTwoRegistries: as SpecCross, with the context of each task registered
\* in a registry of its own, the first in a local registry and the second in
\* the global one; each registry has its own Config, so the verbose settings
\* of the two contexts are independent.
InitTwoRegistries ==
    /\ \E v \in [Contexts -> BOOLEAN] :
          /\ contexts = [c \in Contexts |-> TreeContextNew(c, Span(0), v[c], 0)]
          /\ registries =
                [r \in RegistryIds |->
                    LET c == IF r = "local" THEN 1 ELSE 2 IN
                    [RegistryNew(v[c]) EXCEPT !.contexts =
                        {[key |-> AnonymousKey(c), context |-> c]}]]
    /\ mutex = [c \in Contexts |-> NoHolder]
    /\ wrappers = [w \in Wrappers |-> NoWrapper]
    /\ stack = [t \in Tasks |-> <<>>]
    /\ now = 0
    /\ panicked = FALSE
    /\ actor = 1
    /\ roots = [c \in Contexts |->
                  [TreeRoot(IF c = 1 THEN "local" ELSE "global")
                      EXCEPT !.life = "running"]]

SpecTwoRegistries == InitTwoRegistries /\ [][NextCross]_vars

\* ------------------------------------------------------- registry actions
NumRoots == 3

\* The contexts of a run with a registry, in the order of their creation.
Roots == 1..NumRoots

\* Contexts are created in the order of their numbers: the next value of the
\* ID counter of TreeContext::new.
NextId(c) ==
    /\ c \in DOMAIN roots
    /\ roots[c].life = "none"
    /\ \A d \in DOMAIN roots : d < c => roots[d].life # "none"

\* Registry::register_inner, with the TreeRoot it returns left as `root`.
register_inner(reg, key, c, root) ==
    /\ contexts' = [contexts EXCEPT
          ![c] = TreeContextNew(c, Span(0), registries[reg].verbose, now)]
    /\ registries' = [registries EXCEPT ![reg].contexts = Insert(@, key, c)]
    /\ roots' = [roots EXCEPT ![c] = root]

\* Registry::register
Register(reg, key, c) ==
    /\ ~panicked
    /\ registries[reg].alive
    /\ NextId(c)
    /\ register_inner(reg, key, c, TreeRoot(reg))
    /\ UNCHANGED <<mutex, wrappers, stack, now, panicked, actor>>

\* Registry::register_anonymous
RegisterAnonymous(reg, c) ==
    /\ ~panicked
    /\ registries[reg].alive
    /\ NextId(c)
    /\ register_inner(reg, AnonymousKey(c), c, TreeRoot(reg))
    /\ UNCHANGED <<mutex, wrappers, stack, now, panicked, actor>>

\* A computation that starts to run as task c under a TreeRoot that no
\* register has made.
InstrumentUnregistered(c) ==
    /\ ~panicked
    /\ NextId(c)
    /\ roots' = [roots EXCEPT ![c].life = "running"]
    /\ UNCHANGED <<contexts, mutex, wrappers, stack, now, panicked, actor, registries>>

\* TreeRoot::instrument: the TreeRoot moves into the task-local scope around
\* the computation, which starts to run as task c.
Instrument(c) ==
    /\ ~panicked
    /\ roots[c].life = "held"
    /\ roots' = [roots EXCEPT ![c].life = "running"]
    /\ UNCHANGED <<contexts, mutex, wrappers, stack, now, panicked, actor, registries>>

\* A TreeRoot that was never used is dropped: its context is freed.
DropRoot(c) ==
    /\ ~panicked
    /\ roots[c].life = "held"
    /\ roots' = [roots EXCEPT ![c] = TreeRootDropped(@)]
    /\ contexts' = [contexts EXCEPT ![c] = NoTreeContext]
    /\ UNCHANGED <<mutex, wrappers, stack, now, panicked, actor, registries>>

\* The computation passed to TreeRoot::instrument completes or is dropped,
\* between two polls: the scope ends, the TreeRoot in it is dropped and its
\* context is freed.
InstrumentEnds(c) ==
    /\ ~panicked
    /\ roots[c].life = "running"
    /\ stack[c] = <<>>
    /\ roots' = [roots EXCEPT ![c] = TreeRootDropped(@)]
    /\ contexts' = [contexts EXCEPT ![c] = NoTreeContext]
    /\ UNCHANGED <<mutex, wrappers, stack, now, panicked, actor, registries>>

\* A clear that also frees the contexts of the entries it removes.
ClearFreeingContexts(reg) ==
    /\ ~panicked
    /\ registries[reg].alive
    /\ registries' = [registries EXCEPT ![reg].contexts = {}]
    /\ roots' = [c \in DOMAIN roots |->
                    IF \E e \in registries[reg].contexts : e.context = c
                    THEN TreeRootDropped(roots[c]) ELSE roots[c]]
    /\ UNCHANGED <<contexts, mutex, wrappers, stack, now, panicked, actor>>

\* Registry::clear
Clear(reg) ==
    /\ ~panicked
    /\ registries[reg].alive
    /\ registries' = [registries EXCEPT ![reg].contexts = {}]
    /\ UNCHANGED <<contexts, mutex, wrappers, stack, now, panicked, actor, roots>>

\* init_global_registry that replaces the registry set before.
InitGlobalRegistryReplacing(verbose) ==
    /\ ~panicked
    /\ registries' = [registries EXCEPT !["global"] = RegistryNew(verbose)]
    /\ UNCHANGED <<contexts, mutex, wrappers, stack, now, panicked, actor, roots>>

\* init_global_registry: panics when GLOBAL_REGISTRY is set already.
InitGlobalRegistry(verbose) ==
    /\ ~panicked
    /\ IF registries["global"].alive
       THEN /\ panicked' = TRUE
            /\ UNCHANGED registries
       ELSE /\ registries' = [registries EXCEPT !["global"] = RegistryNew(verbose)]
            /\ UNCHANGED panicked
    /\ UNCHANGED <<contexts, mutex, wrappers, stack, now, actor, roots>>

\* The last handle of the registry made with Registry::new is dropped: the
\* RegistryCore and its map are freed.
DropRegistry ==
    /\ ~panicked
    /\ registries["local"].alive
    /\ registries' = [registries EXCEPT !["local"] = NoRegistryCore]
    /\ UNCHANGED <<contexts, mutex, wrappers, stack, now, panicked, actor, roots>>

\* A spawn that registers in the global registry, whatever the task.
SpawnInGlobal(t, key) ==
    /\ ~panicked
    /\ registries["global"].alive
    /\ \E c \in DOMAIN roots :
          /\ NextId(c)
          /\ register_inner("global", key, c,
                            [TreeRoot("global") EXCEPT !.life = "running"])
    /\ actor' = t
    /\ UNCHANGED <<mutex, wrappers, stack, now, panicked>>

\* spawn(key, root_span, future), called in task t: Registry::spawn on the
\* current registry, which registers and instruments the future; with no
\* current registry the future is spawned as it is, with no context.
Spawn(t, key) ==
    /\ ~panicked
    /\ LET reg == current_registry(t) IN
       IF reg = NoRegistry
       THEN UNCHANGED <<contexts, registries, roots>>
       ELSE \E c \in DOMAIN roots :
               /\ NextId(c)
               /\ register_inner(reg, key, c,
                                 [TreeRoot(reg) EXCEPT !.life = "running"])
    /\ actor' = t
    /\ UNCHANGED <<mutex, wrappers, stack, now, panicked>>

\* spawn_anonymous(root_span, future), called in task t.
SpawnAnonymous(t) ==
    /\ ~panicked
    /\ LET reg == current_registry(t) IN
       IF reg = NoRegistry
       THEN UNCHANGED <<contexts, registries, roots>>
       ELSE \E c \in DOMAIN roots :
               /\ NextId(c)
               /\ register_inner(reg, AnonymousKey(c), c,
                                 [TreeRoot(reg) EXCEPT !.life = "running"])
    /\ actor' = t
    /\ UNCHANGED <<mutex, wrappers, stack, now, panicked>>

\* SpecRegistry: the user makes a registry, registers up to NumRoots trees in it
\* or in the global one, instruments and spawns tasks, and clears and drops
\* the registry; the task of the first tree polls and drops NumRegWrappers
\* wrappers.  The registries
\* have the default configuration.
NumRegWrappers == 1

RegWrappers == 1..NumRegWrappers

\* The tasks that spawn: those of the trees, and one outside of any.
RegTasks == 0..NumRoots

InitRegistry ==
    /\ contexts = [c \in Roots |-> NoTreeContext]
    /\ mutex = [c \in Roots |-> NoHolder]
    /\ wrappers = [w \in Wrappers |-> NoWrapper]
    /\ stack = [t \in RegTasks |-> <<>>]
    /\ now = 0
    /\ panicked = FALSE
    /\ actor = 0
    /\ registries = [r \in RegistryIds |->
                        IF r = "local" THEN RegistryNew(ConfigDefault)
                        ELSE NoRegistryCore]
    /\ roots = [c \in Roots |-> NoRoot]

NextRegistry ==
    \/ \E reg \in RegistryIds : \E key \in UserKeys : \E c \in Roots : Register(reg, key, c)
    \/ \E reg \in RegistryIds : \E c \in Roots : RegisterAnonymous(reg, c)
    \/ \E c \in Roots : Instrument(c)
    \/ \E c \in Roots : DropRoot(c)
    \/ \E c \in Roots : InstrumentEnds(c)
    \/ \E reg \in RegistryIds : Clear(reg)
    \/ InitGlobalRegistry(ConfigDefault)
    \/ DropRegistry
    \/ \E t \in RegTasks : \E key \in UserKeys : Spawn(t, key)
    \/ \E t \in RegTasks : SpawnAnonymous(t)
    \/ \E w \in RegWrappers : InstrumentAwait(w, FALSE)
    \/ \E w \in Wrappers : PollInitialPush(MainTask, w)
    \/ \E w \in Wrappers : PollPolledStepIn(MainTask, w)
    \/ \E r \in PollResults : PollReturnTree(MainTask, r)
    \/ \E w \in Wrappers : DropPolledInContext(MainTask, w)
    \/ \E w \in Wrappers : DropOther(MainTask, w)

SpecRegistry == InitRegistry /\ [][NextRegistry]_vars

\* ---------------------------------------------------------- spawned tasks
\* Instrumented::poll in state Ready: the match arm
\* `State::Ready => unreachable!("the instrumented future should always be
\* fused")`, taken after `old_current` was read and before anything else: the
\* poll unwinds and returns nothing.
PollReadyPollingInner(t, w) ==
    /\ ~panicked
    /\ wrappers[w].life = "alive"
    /\ ~OnStack(w)
    /\ wrappers[w].state = "Ready"
    /\ stack' = [stack EXCEPT ![t] = Append(@, DirectFrame(w))]
    /\ actor' = t
    /\ UNCHANGED <<contexts, mutex, wrappers, now, panicked>>
    /\ UNCHANGED regvars

PollReady(t, w) ==
    /\ ~panicked
    /\ wrappers[w].life = "alive"
    /\ ~OnStack(w)
    /\ wrappers[w].state = "Ready"
    /\ panicked' = TRUE
    /\ wrappers' = [wrappers EXCEPT ![w].out = "panic"]
    /\ actor' = t
    /\ UNCHANGED <<contexts, mutex, stack, now>>
    /\ UNCHANGED regvars

\* The keys that tasks are spawned with.
SpawnKeys == {AnyKey("i32", 0)}

\* The task that runs outside of every instrumented computation.
OutsideTask == 0

\* SpecSpawn: trees are registered and instrumented (the two steps of
\* Registry::spawn) or spawned from inside and outside of tasks, with a local
\* registry that may be dropped and a global one that may be initialized, in
\* either configuration, more than once; a wrapper is polled by the task of
\* the first tree and by a task with no tree, also after it returned Ready.
NextSpawn ==
    \/ \E reg \in RegistryIds : \E key \in SpawnKeys : \E c \in Roots : Register(reg, key, c)
    \/ \E reg \in RegistryIds : \E c \in Roots : RegisterAnonymous(reg, c)
    \/ \E c \in Roots : Instrument(c)
    \/ \E c \in Roots : InstrumentEnds(c)
    \/ \E verbose \in BOOLEAN : InitGlobalRegistry(verbose)
    \/ DropRegistry
    \/ \E t \in RegTasks : \E key \in SpawnKeys : Spawn(t, key)
    \/ \E t \in RegTasks : SpawnAnonymous(t)
    \/ \E w \in RegWrappers : InstrumentAwait(w, FALSE)
    \/ \E w \in Wrappers : PollInitialNoContext(OutsideTask, w)
    \/ \E r \in PollResults : PollReturnDirect(OutsideTask, r)
    \/ \E w \in Wrappers : PollInitialPush(MainTask, w)
    \/ \E w \in Wrappers : PollPolledStepIn(MainTask, w)
    \/ \E r \in PollResults : PollReturnTree(MainTask, r)
    \/ \E w \in Wrappers : DropPolledInContext(MainTask, w)
    \/ \E t \in {OutsideTask, MainTask} : \E w \in Wrappers : DropOther(t, w)
    \/ \E t \in {OutsideTask, MainTask} : \E w \in Wrappers : PollReady(t, w)

SpecSpawn == InitRegistry /\ [][NextSpawn]_vars

\* ----------------------------------------------------------------- Display
\* `node.children(arena)`: the children from the first to the last, every new
\* child being put first by prepend.
children(arena, node) == arena[node].children

\* The children as `children(arena)` yields them, with no sort.
children_in_list_order(arena, s) == s

\* `.sorted_by_key(|&id| arena[id].get().start_time)`: a stable sort, so
\* that nodes of equal start_time stay in the order of the iterator.
RECURSIVE sorted_by_key(_, _)
sorted_by_key(arena, s) ==
    IF s = <<>> THEN <<>>
    ELSE LET rest == sorted_by_key(arena, SubSeq(s, 1, Len(s) - 1))
             x == s[Len(s)]
             i == Cardinality({j \in 1..Len(rest) :
                      arena[rest[j]].start_time <= arena[x].start_time})
         IN SubSeq(rest, 1, i) \o <<x>> \o SubSeq(rest, i + 1, Len(rest))

\* `elapsed.as_secs() >= 10`, with the clock of the model counting seconds.
WarnSecs == 10

\* The mark is put on every span that is not the root of its tree.
warned_below_root(span, elapsed, depth) == depth > 0 /\ elapsed >= WarnSecs

\* The "!!! " in front of the elapsed time:
\* `!inner.span.is_long_running && elapsed.as_secs() >= 10`.
warned(span, elapsed, depth) == ~span.is_long_running /\ elapsed >= WarnSecs

\* The line that fmt_node writes for a node: the indentation, the name of the
\* span, " [elapsed]" with or without the mark, and "  <== current" on the
\* current node below depth 0.  The elapsed time is a sequence of one number,
\* as the line would have none were it left out.
Line(tree, node, depth, t) ==
    LET inner == tree.arena[node]
        elapsed == t - inner.start_time
    IN [kind |-> "span", node |-> node, indent |-> depth * 2,
        name |-> inner.span.name,
        elapsed |-> <<elapsed>>,
        mark |-> warned(inner.span, elapsed, depth),
        current |-> depth > 0 /\ node = tree.current]

\* fmt_node: the line of the node, then its children sorted by start_time,
\* one level deeper.
RECURSIVE fmt_node(_, _, _, _)
RECURSIVE fmt_nodes(_, _, _, _)
fmt_node(tree, node, depth, t) ==
    <<Line(tree, node, depth, t)>>
        \o fmt_nodes(tree, sorted_by_key(tree.arena, children(tree.arena, node)),
                     depth + 1, t)

\* The loop of fmt_node over the sorted children.
fmt_nodes(tree, nodes, depth, t) ==
    IF nodes = <<>> THEN <<>>
    ELSE fmt_node(tree, Head(nodes), depth, t) \o fmt_nodes(tree, Tail(nodes), depth, t)

\* detached_roots as the iterator it is: in the order of the arena.
RECURSIVE detached_roots_upto(_, _)
detached_roots_upto(tree, n) ==
    IF n = 0 THEN <<>>
    ELSE detached_roots_upto(tree, n - 1)
            \o (IF n \in detached_roots(tree) THEN <<n>> ELSE <<>>)

\* `writeln!(f, "[Detached {node}]")` and the subtree at depth 1, for every
\* detached root from position i on.
RECURSIVE fmt_detached(_, _, _, _)
fmt_detached(tree, roots_, i, t) ==
    IF i > Len(roots_) THEN <<>>
    ELSE <<[kind |-> "detached", node |-> roots_[i]]>>
            \o fmt_node(tree, roots_[i], 1, t)
            \o fmt_detached(tree, roots_, i + 1, t)

\* <Tree as Display>::fmt at time t: the lines of the output.
Display(tree, t) ==
    fmt_node(tree, tree.root, 0, t)
        \o fmt_detached(tree, detached_roots_upto(tree, Len(tree.arena)), 1, t)

\* <SpanNodeSer as Serialize>::serialize at time t; the elapsed time is in the
\* unit of the clock of the model.
RECURSIVE SpanNodeSer(_, _, _)
RECURSIVE SpanNodeSers(_, _, _)
SpanNodeSer(tree, node, t) ==
    [id |-> node,
     span |-> tree.arena[node].span,
     elapsed_ns |-> t - tree.arena[node].start_time,
     children |-> SpanNodeSers(tree,
                     sorted_by_key(tree.arena, children(tree.arena, node)), t)]

\* `.collect_vec()` of the serializers of a list of nodes.
SpanNodeSers(tree, nodes, t) ==
    IF nodes = <<>> THEN <<>>
    ELSE <<SpanNodeSer(tree, Head(nodes), t)>> \o SpanNodeSers(tree, Tail(nodes), t)

\* <Tree as Serialize>::serialize at time t.
Serialize(tree, t) ==
    [current |-> tree.current,
     tree |-> SpanNodeSer(tree, tree.root, t),
     detached |-> SpanNodeSers(tree, detached_roots_upto(tree, Len(tree.arena)), t)]

\* instrument_await(span.long_running())
InstrumentAwaitLongRunning(w) ==
    /\ Creatable(w)
    /\ wrappers' = [wrappers EXCEPT
          ![w] = InstrumentedNew(SpanLongRunning(Span(SpanName)), FALSE)]
    /\ UNCHANGED <<contexts, mutex, stack, now, panicked, actor>>
    /\ UNCHANGED regvars

\* The seconds that pass while every task sleeps, and the last instant of a
\* run.
SleepSecs == 9

MaxDisplayClock == 10

\* Every task sleeps for SleepSecs.
Sleep ==
    /\ ~panicked
    /\ now + SleepSecs <= MaxDisplayClock
    /\ now' = now + SleepSecs
    /\ UNCHANGED <<contexts, mutex, wrappers, stack, panicked, actor>>
    /\ UNCHANGED regvars

\* SpecDisplay: one task polls and drops NumWrappers wrappers of plain and of
\* long-running spans while the clock goes by ticks and by sleeps; the tree
\* may be displayed and serialized in every state.
NextDisplay ==
    \/ Tick
    \/ Sleep
    \/ \E w \in Wrappers : InstrumentAwait(w, FALSE)
    \/ \E w \in Wrappers : InstrumentAwaitLongRunning(w)
    \/ \E w \in Wrappers : PollInitialPush(MainTask, w)
    \/ \E w \in Wrappers : PollPolledStepIn(MainTask, w)
    \/ \E r \in PollResults : PollReturnTree(MainTask, r)
    \/ \E w \in Wrappers : DropPolledInContext(MainTask, w)
    \/ \E w \in Wrappers : DropOther(MainTask, w)

SpecDisplay == Init /\ [][NextDisplay]_vars

\* ------------------------------------------------- vocabulary of the claims
TreeOf(c) == contexts[c].tree

Children(tree, n) == SeqToSet(tree.arena[n].children)

RECURSIVE Descendants(_, _)
Descendants(tree, n) ==
    Children(tree, n) \cup UNION {Descendants(tree, k) : k \in Children(tree, n)}

\* This step is task t entering the inner poll of wrapper w.
PollEntered(t, w) ==
    /\ actor' = t
    /\ Len(stack'[t]) = Len(stack[t]) + 1
    /\ stack'[t][Len(stack'[t])].w = w

\* This step is the poll of wrapper w returning in task t.
PollReturned(t, w) ==
    /\ actor' = t
    /\ stack[t] # <<>>
    /\ Len(stack'[t]) = Len(stack[t]) - 1
    /\ Top(t).w = w

\* This step is task t dropping wrapper w.
WrapperDropped(t, w) ==
    /\ actor' = t
    /\ wrappers[w].life = "alive"
    /\ wrappers'[w].life = "dropped"

\* Wrapper w holds, or has left behind, a node of context c.
HasNodeIn(w, c) ==
    wrappers[w].state = "Polled" /\ wrappers[w].this_context = contexts[c].id

\* ---------------------------------------------------------------------- C1
\* C1: once every wrapper that pushed a node into context c has returned Ready
\* in c or has been dropped in c, the tree of c has exactly one live node, the
\* root, no detached root, and current = root.
C1_OnlyRootLeft ==
    \A c \in Contexts :
        (\A w \in Wrappers : ~HasNodeIn(w, c)) =>
            /\ LiveNodes(TreeOf(c)) = {TreeOf(c).root}
            /\ active_node_count(TreeOf(c)) = 1
            /\ detached_node_count(TreeOf(c)) = 0
            /\ current(TreeOf(c)) = TreeOf(c).root

\* Every wrapper has pushed a node into the first context, some have returned
\* Ready, some have been dropped in state Polled, and none has a node left.
C1_Witness ==
    /\ \A w \in Wrappers : ~HasNodeIn(w, 1)
    /\ Len(TreeOf(1).arena) = NumWrappers + 1
    /\ \E w \in Wrappers : wrappers[w].state = "Ready"
    /\ \E w \in Wrappers : wrappers[w].life = "dropped" /\ wrappers[w].state = "Polled"

\* ---------------------------------------------------------------------- C2
C2_Case(t, w) ==
    /\ WrapperDropped(t, w)
    /\ wrappers[w].state = "Polled"
    /\ ContextCorrect(current_context(t), w)

C2_Effect(t, w) ==
    LET c == current_context(t)
        before == contexts[c].tree
        after == contexts'[c].tree
        n == wrappers[w].this_node
        kids == Children(before, n)
    IN /\ active_node_count(after) = active_node_count(before) - 1
       /\ LiveNodes(after) = LiveNodes(before) \ {n}
       /\ detached_roots(after) = (detached_roots(before) \ {n}) \cup kids
       /\ \A k \in kids :
            /\ after.arena[k].parent = NoNode
            /\ after.arena[k].start_time = before.arena[k].start_time
            /\ after.arena[k].children = before.arena[k].children
            /\ \A m \in Descendants(before, k) : after.arena[m] = before.arena[m]
       /\ current(after) = current(before)
       /\ \A d \in Contexts \ {c} : contexts'[d] = contexts[d]

\* C2: dropping a wrapper in state Polled in its own context removes exactly
\* its node: the count of live nodes decreases by 1, each child of the node
\* becomes a detached root that keeps its subtree and its start_time, and
\* current is unchanged.
C2_DropRemovesOneNode ==
    [][\A t \in Tasks : \A w \in Wrappers : C2_Case(t, w) => C2_Effect(t, w)]_vars

\* A wrapper was dropped in state Polled in its context, no wrapper has ever
\* returned Ready, and a detached root with a child of its own is in the tree.
C2_Witness ==
    /\ \A w \in Wrappers : wrappers[w].state # "Ready"
    /\ Cardinality({w \in Wrappers : /\ wrappers[w].life = "dropped"
                                     /\ wrappers[w].state = "Polled"
                                     /\ wrappers[w].this_context = NoContext}) = 1
    /\ \E n \in detached_roots(TreeOf(1)) : TreeOf(1).arena[n].children # <<>>

\* ---------------------------------------------------------------------- C3
C3_Case(t, w) ==
    /\ PollEntered(t, w)
    /\ wrappers[w].state = "Polled"
    /\ ContextCorrect(current_context(t), w)
    /\ wrappers[w].this_node \notin
          Children(TreeOf(current_context(t)), current(TreeOf(current_context(t))))

C3_Effect(t, w) ==
    LET c == current_context(t)
        before == contexts[c].tree
        after == contexts'[c].tree
        n == wrappers[w].this_node
    IN /\ after.arena[n].parent = current(before)
       /\ n \in Children(after, current(before))
       /\ \A m \in Nodes(after) \ {current(before)} : n \notin Children(after, m)
       /\ n \notin detached_roots(after)
       /\ current(after) = n
       /\ after.arena[n].children = before.arena[n].children
       /\ after.arena[n].start_time = before.arena[n].start_time
       /\ Descendants(after, n) = Descendants(before, n)
       /\ \A m \in Descendants(before, n) : after.arena[m] = before.arena[m]

\* While a poll that pushed or stepped in is in its inner poll, the parent of
\* its node is the value current had on entry.
C3_During ==
    \A t \in Tasks : \A i \in 1..Len(stack[t]) :
        stack[t][i].in_tree =>
            LET n == wrappers[stack[t][i].w].this_node
                tree == TreeOf(current_context(t))
            IN /\ tree.arena[n].parent = stack[t][i].old_current
               /\ n \in Children(tree, stack[t][i].old_current)

\* C3: a poll of a Polled wrapper in its own context whose node is not a child
\* of current re-parents the node: during the inner poll its parent is the
\* value current had on entry, it is a child of no other node and not a
\* detached root, and its subtree has moved with it.
C3_Reparent ==
    /\ [][\A t \in Tasks : \A w \in Wrappers : C3_Case(t, w) => C3_Effect(t, w)]_vars
    /\ []C3_During

\* A poll is in its inner poll on a node that has a child and whose parent is
\* younger than itself: the node was pushed under another parent.
C3_Witness ==
    \E t \in Contexts :
        /\ stack[t] # <<>>
        /\ Top(t).in_tree
        /\ LET n == wrappers[Top(t).w].this_node IN
              /\ TreeOf(t).arena[n].parent > n
              /\ TreeOf(t).arena[n].children # <<>>

\* ---------------------------------------------------------------------- C4
C4_Case(t, w) ==
    /\ current_context(t) = NoContext
    /\ wrappers[w].state = "Initial"

\* C4: with no context bound, a poll of a wrapper in state Initial returns
\* what the inner poll returns, leaves the wrapper in state Initial and changes
\* no tree, and so does its drop.
C4_Transparent ==
    [][\A t \in Tasks : \A w \in Wrappers :
          /\ (C4_Case(t, w) /\ PollEntered(t, w)) =>
                /\ contexts' = contexts
                /\ wrappers' = wrappers
                /\ ~stack'[t][Len(stack'[t])].in_tree
                /\ panicked' = panicked
          /\ (C4_Case(t, w) /\ PollReturned(t, w)) =>
                /\ contexts' = contexts
                /\ wrappers'[w].state = "Initial"
                /\ wrappers'[w].span = wrappers[w].span
                /\ wrappers'[w].out = wrappers'[w].inner
                /\ panicked' = panicked
          /\ (C4_Case(t, w) /\ WrapperDropped(t, w)) =>
                /\ contexts' = contexts
                /\ panicked' = panicked]_vars

\* A wrapper polled to completion outside of any context is still Initial.
C4_Witness ==
    /\ actor = 0
    /\ \E w \in Wrappers :
          /\ wrappers[w].life = "alive"
          /\ wrappers[w].state = "Initial"
          /\ wrappers[w].out = "ready"

C6_Case(t, w) ==
    /\ wrappers[w].state = "Polled"
    /\ ~ContextCorrect(current_context(t), w)

\* C6: a poll of a Polled wrapper outside of its context returns what the
\* inner poll returns and leaves every tree as it is.
C6_PollElsewhereTouchesNoTree ==
    [][\A t \in Tasks : \A w \in Wrappers :
          /\ (C6_Case(t, w) /\ PollEntered(t, w)) =>
                /\ contexts' = contexts
                /\ wrappers' = wrappers
                /\ ~stack'[t][Len(stack'[t])].in_tree
                /\ panicked' = panicked
          /\ (C6_Case(t, w) /\ PollReturned(t, w)) =>
                /\ contexts' = contexts
                /\ wrappers'[w].out = wrappers'[w].inner
                /\ wrappers'[w].state = "Polled"
                /\ wrappers'[w].this_node = wrappers[w].this_node
                /\ wrappers'[w].this_context = wrappers[w].this_context
                /\ panicked' = panicked]_vars

\* A Polled wrapper has completed in a poll outside of its context, its node
\* still live in its tree.
C6_Witness ==
    \E w \in Wrappers :
        /\ wrappers[w].life = "alive"
        /\ wrappers[w].state = "Polled"
        /\ wrappers[w].out = "ready"
        /\ wrappers[w].this_node \in LiveNodes(TreeOf(wrappers[w].this_context))

\* ---------------------------------------------------------------------- C7
\* C7: a drop of a Polled wrapper outside of its context does not panic and
\* changes no tree, its node stays in its tree; a drop in state Initial, Ready
\* or Disabled changes no tree.
C7_DropElsewhereLeaks ==
    [][\A t \in Tasks : \A w \in Wrappers :
          /\ (C6_Case(t, w) /\ WrapperDropped(t, w)) =>
                /\ contexts' = contexts
                /\ ~panicked'
                /\ ~contexts'[wrappers[w].this_context].tree.arena[wrappers[w].this_node].removed
          /\ (wrappers[w].state \in {"Initial", "Ready", "Disabled"}
                /\ WrapperDropped(t, w)) =>
                /\ contexts' = contexts
                /\ ~panicked']_vars

\* A wrapper was dropped outside of its context and its node is still live.
C7_Witness ==
    \E w \in Wrappers :
        /\ wrappers[w].life = "dropped"
        /\ wrappers[w].state = "Polled"
        /\ wrappers[w].this_context # NoContext
        /\ wrappers[w].this_node \in LiveNodes(TreeOf(wrappers[w].this_context))

\* ---------------------------------------------------------------------- C8
\* The first poll of w in context c pushes one node under current.
PushesNode(c, w) ==
    LET before == contexts[c].tree
        after == contexts'[c].tree
        n == wrappers'[w].this_node
    IN /\ wrappers'[w].state = "Polled"
       /\ wrappers'[w].this_context = contexts[c].id
       /\ n \notin Nodes(before)
       /\ LiveNodes(after) = LiveNodes(before) \cup {n}
       /\ active_node_count(after) = active_node_count(before) + 1
       /\ after.arena[n].parent = current(before)
       /\ current(after) = n

C9_VerboseSpanGated ==
    [][\A t \in Contexts : \A w \in Wrappers :
          (/\ wrappers[w].state = "Initial"
           /\ ~wrappers[w].VERBOSE
           /\ PollEntered(t, w)) =>
                IF wrappers[w].span.is_verbose /\ ~contexts[t].verbose
                THEN contexts' = contexts
                ELSE PushesNode(t, w)]_vars

\* --------------------------------------------------------------------- C10
\* This step is the poll of w returning Ready on the path that updates the tree.
ReturnedReady(t, w) ==
    /\ PollReturned(t, w)
    /\ Top(t).in_tree
    /\ wrappers'[w].state = "Ready"

\* C10 as claimed: after a poll that returns Ready the node count is the count
\* measured right before that poll minus 1.
C10_CountIsBeforePollMinusOne ==
    [][\A t \in Contexts : \A w \in Wrappers :
          ReturnedReady(t, w) =>
              active_node_count(contexts'[t].tree) = Top(t).n_before - 1]_vars

\* C10 as amended: after a poll that returns Ready the node count is the count
\* measured when the inner poll has returned, right before the pop, minus 1:
\* the pop removes the node of the wrapper and no other.
C10_CountIsBeforePopMinusOne ==
    [][\A t \in Contexts : \A w \in Wrappers :
          ReturnedReady(t, w) =>
              /\ active_node_count(contexts'[t].tree)
                    = active_node_count(contexts[t].tree) - 1
              /\ LiveNodes(contexts'[t].tree)
                    = LiveNodes(contexts[t].tree) \ {wrappers[w].this_node}]_vars

\* A wrapper has returned Ready while a node pushed below it is still live: no
\* wrapper was dropped, and the tree has a detached root.
C10_Witness ==
    /\ \E w \in Wrappers : wrappers[w].life = "alive" /\ wrappers[w].state = "Ready"
    /\ \A w \in Wrappers : wrappers[w].life # "dropped"
    /\ detached_roots(TreeOf(1)) # {}

\* --------------------------------------------------------------------- C11
\* This step is the poll of w returning Pending on the path that updates the
\* tree.
ReturnedPending(t, w) ==
    /\ PollReturned(t, w)
    /\ Top(t).in_tree
    /\ ~panicked'
    /\ wrappers'[w].inner = "pending"

C12_StartTimeSetOnce ==
    [][\A c \in Contexts :
          LET before == contexts[c].tree
              after == contexts'[c].tree
          IN /\ \A n \in Nodes(before) \cap LiveNodes(after) :
                    after.arena[n].start_time = before.arena[n].start_time
             /\ \A n \in Nodes(after) \ Nodes(before) :
                    /\ after.arena[n].start_time = now
                    /\ \E w \in Wrappers :
                          /\ wrappers[w].state = "Initial"
                          /\ PollEntered(c, w)
                          /\ wrappers'[w].this_node = n]_vars

\* A node is mounted under a node pushed after it: it was re-parented, and it
\* still has the start_time of its first poll.
C12_Witness ==
    \E n \in LiveNodes(TreeOf(1)) :
        LET p == TreeOf(1).arena[n].parent IN
        /\ p # NoNode
        /\ TreeOf(1).arena[n].start_time < TreeOf(1).arena[p].start_time
        /\ TreeOf(1).arena[n].start_time < now

\* ------------------------------------------- vocabulary of registry claims
\* The trees that the reads of registry reg return.
Discoverable(reg) == {x.context : x \in collect_all(reg)}

\* Everything that get and the collects of registry reg return.
AllReads(reg) ==
    collect_all(reg) \cup collect_anonymous(reg)
        \cup UNION {collect(reg, K) : K \in KeyTypes}
        \cup UNION {get(reg, key) : key \in UserKeys}

\* This step creates context c.
Registered(c) == roots[c].life = "none" /\ roots'[c].life # "none"

\* This step creates context c under key in registry reg.
RegisteredAs(c, reg, key) ==
    /\ Registered(c)
    /\ [key |-> key, context |-> c] \in registries'[reg].contexts

\* The TreeRoot of context c is bound to the task c.
Bound(c) == roots[c].life = "running"

\* --------------------------------------------------------------------- C13
\* C13: an entry whose TreeRoot is dropped is still in the map, and no read
\* returns its tree: get of its key returns None; get of the key of an entry
\* whose TreeRoot exists returns the snapshot of its tree.
C13_RegistryKeepsNoTreeAlive ==
    \A reg \in RegistryIds : \A e \in registries[reg].contexts :
        IF roots[e.context].life = "dropped"
        THEN /\ e.context \notin {x.context : x \in AllReads(reg)}
             /\ ~is_anonymous(e.key) => get(reg, e.key) = {}
        ELSE ~is_anonymous(e.key) =>
                get(reg, e.key) = {[key |-> e.key, context |-> e.context,
                                    tree |-> contexts[e.context].tree]}

\* The map holds the entry of a dropped TreeRoot and the entry of a live one,
\* both under keys of users.
C13_Witness ==
    \E e1, e2 \in registries["local"].contexts :
        /\ roots[e1.context].life = "dropped"
        /\ roots[e2.context].life = "held"
        /\ ~is_anonymous(e1.key)
        /\ ~is_anonymous(e2.key)

C15_RegisterReplaces ==
    [][\A reg \in RegistryIds : \A c \in Roots :
          /\ \A e \in registries[reg].contexts :
                (/\ Upgrades(e.context)
                 /\ ~is_anonymous(e.key)
                 /\ RegisteredAs(c, reg, e.key)) =>
                    /\ {x.context : x \in get(reg, e.key)'} = {c}
                    /\ Cardinality({x \in collect_all(reg)' : x.key = e.key}) = 1
                    /\ Cardinality({x \in collect(reg, e.key.type)' :
                                       x.key = e.key}) = 1
                    /\ e.context \notin Discoverable(reg)'
                    /\ roots'[e.context] = roots[e.context]
                    /\ contexts'[e.context] = contexts[e.context]
          /\ (Upgrades(c) /\ ~Upgrades(c)') =>
                /\ registries' = registries
                /\ Discoverable(reg)' = Discoverable(reg) \ {c}]_vars

\* The first tree was replaced under its key by a live tree, and its task has
\* pushed a node into it.
C15_Witness ==
    \E e \in registries["local"].contexts :
        /\ e.context # 1
        /\ Upgrades(e.context)
        /\ ~is_anonymous(e.key)
        /\ Bound(1)
        /\ roots[1].registry = "local"
        /\ 1 \notin Discoverable("local")
        /\ registries["global"].contexts = {}
        /\ \A d \in Roots \ {1, e.context} : roots[d].life = "none"
        /\ active_node_count(TreeOf(1)) = 2

\* --------------------------------------------------------------------- C16
\* C16: a live tree registered anonymously is in collect_anonymous and in
\* collect_all, and in no get of a key of a user, whatever its value; an
\* anonymous register removes no entry.
C16_AnonymousNotGettable ==
    /\ [](\A reg \in RegistryIds : \A e \in LiveEntries(reg) :
             is_anonymous(e.key) =>
                /\ e.context \in {x.context : x \in collect_anonymous(reg)}
                /\ e.context \in {x.context : x \in collect_all(reg)}
                /\ \A key \in UserKeys :
                      e.context \notin {x.context : x \in get(reg, key)}
                /\ \A K \in KeyTypes :
                      e.context \notin {x.context : x \in collect(reg, K)})
    /\ [][\A reg \in RegistryIds : \A c \in Roots :
             RegisteredAs(c, reg, AnonymousKey(c)) =>
                 registries[reg].contexts \subseteq registries'[reg].contexts]_vars

\* Two live anonymous trees are registered, the first next to an entry of a
\* user key whose value is the id of the first.
C16_Witness ==
    \E e1, e2, e3 \in LiveEntries("local") :
        /\ is_anonymous(e1.key)
        /\ is_anonymous(e2.key)
        /\ e1 # e2
        /\ ~is_anonymous(e3.key)
        /\ e3.key.value = e1.key.value

\* --------------------------------------------------------------------- C17
\* The sum of the lengths of collect::<K> over the key types.
RECURSIVE CountByType(_, _)
CountByType(reg, types) ==
    IF types = {} THEN 0
    ELSE LET K == CHOOSE K \in types : TRUE
         IN Cardinality(collect(reg, K)) + CountByType(reg, types \ {K})

\* C17: a map holds one entry per key, keys of different types or of different
\* values being different keys, and a register removes no entry of another
\* key; collect::<K> returns the live entries of the keys of type K and no
\* other, collect_anonymous the live anonymous ones, collect_all all of them:
\* its length is the sum of theirs.
C17_KeysTypedAndCollectsPartition ==
    /\ [](\A reg \in RegistryIds :
             /\ \A e1, e2 \in registries[reg].contexts :
                   e1.key = e2.key => e1 = e2
             /\ \A e \in LiveEntries(reg) : \A K \in KeyTypes :
                   (e.key.type = K) <=>
                       (e.context \in {x.context : x \in collect(reg, K)})
             /\ \A e \in LiveEntries(reg) :
                   (e.key.type = "AnonymousKey") <=>
                       (e.context \in {x.context : x \in collect_anonymous(reg)})
             /\ {x.context : x \in collect_all(reg)} =
                   {e.context : e \in LiveEntries(reg)}
             /\ Cardinality(collect_all(reg)) =
                   CountByType(reg, KeyTypes) + Cardinality(collect_anonymous(reg)))
    /\ [][\A reg \in RegistryIds : \A c \in Roots : \A key \in UserKeys :
             RegisteredAs(c, reg, key) =>
                 \A e \in registries[reg].contexts :
                     (e.key.type # key.type \/ e.key.value # key.value) =>
                         e \in registries'[reg].contexts]_vars

\* Keys of two types with the same value and an anonymous key have their
\* entries, all live, in one registry.
C17_Witness ==
    /\ Cardinality(collect("local", "i32")) = 1
    /\ Cardinality(collect("local", "str")) = 1
    /\ Cardinality(collect_anonymous("local")) = 1
    /\ \E x \in collect("local", "i32") : \E y \in collect("local", "str") :
          x.key.value = y.key.value

\* --------------------------------------------------------------------- C18
\* This step is a clear of registry reg, which had entries.
Cleared(reg) ==
    /\ registries[reg].alive
    /\ registries'[reg].alive
    /\ registries[reg].contexts # {}
    /\ registries'[reg].contexts = {}

\* C18: after a clear no read of the registry returns anything, and every
\* TreeRoot, context and current_tree() is what it was; in a task whose tree
\* is not discoverable a first poll still pushes a node and a Ready poll
\* still pops it, and current_tree() in a task is the tree of its TreeRoot.
C18_ClearKeepsRootsWorking ==
    /\ [][\A reg \in RegistryIds :
             Cleared(reg) =>
                /\ AllReads(reg)' = {}
                /\ roots' = roots
                /\ contexts' = contexts
                /\ \A t \in RegTasks : current_tree(t)' = current_tree(t)]_vars
    /\ [][\A t \in Roots : \A w \in Wrappers :
             (\A reg \in RegistryIds : t \notin Discoverable(reg)) =>
                /\ (wrappers[w].state = "Initial" /\ PollEntered(t, w)) =>
                       PushesNode(t, w)
                /\ ReturnedReady(t, w) =>
                       LiveNodes(contexts'[t].tree) =
                           LiveNodes(contexts[t].tree) \ {wrappers[w].this_node}]_vars
    /\ [](\A t \in Roots : Bound(t) => current_tree(t) = {contexts[t].tree})

\* The registry of the first tree was cleared, and its task has polled a
\* wrapper to completion.
C18_Witness ==
    /\ Bound(1)
    /\ roots[1].registry = "local"
    /\ registries["local"].alive
    /\ registries["local"].contexts = {}
    /\ registries["global"].contexts = {}
    /\ \A c \in Roots \ {1} : roots[c].life = "none"
    /\ \E w \in Wrappers : wrappers[w].life = "alive" /\ wrappers[w].state = "Ready"

\* --------------------------------------------------------------------- C19
\* C19: try_current() in a task is the registry of the TreeRoot bound to the
\* task if that registry exists, or else the global registry if it is
\* initialized, or else None; current() panics in the last case and in no
\* other.
C19_CurrentRegistryLookup ==
    \A t \in RegTasks :
        /\ IF t \in Roots /\ Bound(t) /\ registries[roots[t].registry].alive
           THEN current_registry(t) = roots[t].registry
           ELSE IF registries["global"].alive
                THEN current_registry(t) = "global"
                ELSE current_registry(t) = NoRegistry
        /\ current_panics(t) <=>
              /\ ~(t \in Roots /\ Bound(t) /\ registries[roots[t].registry].alive)
              /\ ~registries["global"].alive

\* The registry of a running task is dropped and the global one is
\* initialized: the lookup falls back.
C19_Witness ==
    \E t \in Roots :
        /\ Bound(t)
        /\ roots[t].registry = "local"
        /\ ~registries["local"].alive
        /\ registries["global"].alive

\* --------------------------------------------------------------------- C20
\* C20: a spawn or spawn_anonymous called in a task whose TreeRoot has a live
\* registry registers the new task in that registry, under a TreeRoot and a
\* tree of its own, and leaves the tree of the caller as it is.
C20_SpawnRegistersInCurrent ==
    [][\A t \in Roots : \A c \in Roots :
          (/\ actor' = t
           /\ Bound(t)
           /\ registries[roots[t].registry].alive
           /\ roots[c].life = "none"
           /\ roots'[c].life = "running") =>
              /\ c # t
              /\ roots'[c].registry = roots[t].registry
              /\ c \in Discoverable(roots[t].registry)'
              /\ contexts'[c].id # contexts[t].id
              /\ active_node_count(contexts'[c].tree) = 1
              /\ contexts'[t] = contexts[t]
              /\ roots'[t] = roots[t]]_vars

\* A root under a user key, its anonymous child and its anonymous grandchild,
\* spawned last by the child, run in the registry made by the user: 1 entry
\* of the key type, 2 anonymous, 3 in all.
C20_Witness ==
    /\ \A c \in Roots : Bound(c) /\ roots[c].registry = "local"
    /\ ~registries["global"].alive
    /\ actor = 2
    /\ Cardinality(collect("local", "i32")) = 1
    /\ {x.context : x \in collect("local", "i32")} = {1}
    /\ {x.context : x \in collect_anonymous("local")} = {2, 3}
    /\ Cardinality(collect_all("local")) = 3

\* --------------------------------------------------------------------- C21
\* C21: Registry::spawn and spawn_anonymous register the tree before the task
\* runs: the step that makes the TreeRoot of a task puts its tree in the
\* registry, where the reads find it; a task starts to run only under a
\* TreeRoot that a register has made, in an earlier step or in this one; every
\* poll in the task happens with its own tree bound and changes no other
\* tree; and the tree stays discoverable while the task runs and its registry
\* is left alone.
C21_RegisteredBeforePolled ==
    [][\A c \in Roots :
          /\ Registered(c) =>
                /\ \E reg \in RegistryIds :
                      /\ roots'[c].registry = reg
                      /\ \E e \in registries'[reg].contexts : e.context = c
                      /\ c \in Discoverable(reg)'
                /\ contexts'[c].id = c
          /\ (~Bound(c) /\ Bound(c)') =>
                /\ roots[c].life = "held" \/ Registered(c)
                /\ roots'[c].registry \in RegistryIds
          /\ \A w \in Wrappers : PollEntered(c, w) =>
                /\ Bound(c)
                /\ roots[c].registry \in RegistryIds
                /\ current_context(c) = c
                /\ Top(c)'.in_tree
                /\ \A d \in Roots \ {c} : contexts'[d] = contexts[d]
          /\ \A reg \in RegistryIds :
                (/\ c \in Discoverable(reg)
                 /\ Bound(c)'
                 /\ registries'[reg] = registries[reg]) =>
                    c \in Discoverable(reg)']_vars

\* The first task is in a poll and the second runs, both discoverable in the
\* registry they were registered in; the third, spawned as well, has finished
\* and is not discoverable.
C21_Witness ==
    /\ Bound(1) /\ stack[1] # <<>> /\ Top(1).in_tree
    /\ Bound(2)
    /\ {1, 2} \subseteq Discoverable("local")
    /\ roots[3].life = "dropped" /\ roots[3].registry = "local"
    /\ \E e \in registries["local"].contexts : e.context = 3
    /\ 3 \notin Discoverable("local")

\* --------------------------------------------------------------------- C22
\* Task t has no registry to spawn into: no TreeRoot with a live registry is
\* bound to it and the global registry is not initialized.
NoRegistryFor(t) ==
    /\ ~registries["global"].alive
    /\ t \in Roots => ~(Bound(t) /\ registries[roots[t].registry].alive)

\* This step is a spawn or spawn_anonymous called by task t, another task
\* than the one of the step before.
SpawnCalled(t) ==
    /\ actor' = t
    /\ actor # t
    /\ stack' = stack
    /\ wrappers' = wrappers

\* C22: a spawn or spawn_anonymous called where try_current() is None creates
\* no tree context and changes no registry and no TreeRoot; a wrapper polled
\* in a task with no tree is polled straight through: the poll returns what
\* the inner poll returns, the wrapper stays Initial and no tree changes.
C22_SpawnWithoutRegistry ==
    [][/\ \A t \in RegTasks :
             (SpawnCalled(t) /\ NoRegistryFor(t)) =>
                /\ contexts' = contexts
                /\ registries' = registries
                /\ roots' = roots
                /\ mutex' = mutex
                /\ panicked' = panicked
       /\ \A w \in Wrappers :
             /\ PollEntered(OutsideTask, w) =>
                   /\ ~Top(OutsideTask)'.in_tree
                   /\ contexts' = contexts
                   /\ wrappers' = wrappers
                   /\ registries' = registries
             /\ PollReturned(OutsideTask, w) =>
                   /\ contexts' = contexts
                   /\ wrappers'[w].state = wrappers[w].state
                   /\ wrappers'[w].this_node = NoNode
                   /\ wrappers'[w].out = wrappers'[w].inner
                   /\ registries' = registries]_vars

\* The registry made by the user is gone and the global one is not
\* initialized; a wrapper polled in a task with no tree returned Pending and
\* is still Initial, and the last call is a spawn by the second task, which
\* has no tree either: there is no tree and no entry anywhere.
C22_Witness ==
    /\ \A reg \in RegistryIds : ~registries[reg].alive /\ registries[reg].contexts = {}
    /\ \A c \in Roots : roots[c] = NoRoot /\ contexts[c] = NoTreeContext
    /\ actor = 2
    /\ wrappers[1].life = "alive"
    /\ wrappers[1].state = "Initial"
    /\ wrappers[1].out = "pending"

\* --------------------------------------------------------------------- C23
\* The trees that one operation of a wrapper, run on the tree of context c
\* alone, can turn it into: a push of the span of a wrapper not polled yet, a
\* step_in to or a remove_and_detach of the node of a wrapper of c, a pop or
\* a step_out.
OwnSteps(c) ==
    LET tree == contexts[c].tree IN
    {push(tree, wrappers[w].span, now) :
        w \in {x \in Wrappers : wrappers[x].life = "alive"
                                /\ wrappers[x].state = "Initial"}}
    \cup {step_in(tree, wrappers[w].this_node) : w \in {x \in Wrappers : HasNodeIn(x, c)}}
    \cup {remove_and_detach(tree, wrappers[w].this_node) :
             w \in {x \in Wrappers : HasNodeIn(x, c)}}
    \cup (IF no_parent(tree) THEN {} ELSE {pop(tree), step_out(tree)})

\* C23: with two instrumented tasks running at once, a tree changes only in
\* a step of its own task, the step changes no other tree and takes no other
\* mutex, and the new tree is what one operation of one of its wrappers makes
\* of the old tree alone, whatever the other tree is.
C23_TreesIsolated ==
    [][\A c \in Contexts :
          /\ contexts'[c] # contexts[c] =>
                /\ actor' = c
                /\ current_context(c) = c
                /\ \A d \in Contexts \ {c} :
                      contexts'[d] = contexts[d] /\ mutex'[d] = mutex[d]
                /\ contexts'[c].id = contexts[c].id
                /\ contexts'[c].verbose = contexts[c].verbose
                /\ contexts'[c].tree \in OwnSteps(c)
          /\ \A w \in Wrappers :
                (PollEntered(c, w) /\ Top(c)'.in_tree) =>
                    /\ wrappers'[w].this_context = contexts[c].id
                    /\ wrappers'[w].this_node = current(contexts'[c].tree)]_vars

\* Both tasks are inside the poll of a wrapper of their own, each with the
\* node of that wrapper as the current node of its own tree.
C23_Witness ==
    \A c \in Contexts :
        /\ stack[c] # <<>>
        /\ Top(c).in_tree
        /\ HasNodeIn(Top(c).w, c)
        /\ current(TreeOf(c)) = wrappers[Top(c).w].this_node
        /\ active_node_count(TreeOf(c)) = 2

\* --------------------------------------------------------------------- C24
\* The root of the tree of context c is in place: not removed, with no parent,
\* and the child of no node.
RootInPlace(c) ==
    LET tree == TreeOf(c) IN
    /\ tree.root = 1
    /\ ~tree.arena[tree.root].removed
    /\ tree.arena[tree.root].parent = NoNode
    /\ \A n \in Nodes(tree) : tree.root \notin SeqToSet(tree.arena[n].children)

\* C24: when every wrapper is polled by one task only and never again after
\* it returned Ready, no tree operation panics: pop and step_out are called
\* with current # root only, the prepend of step_in never fails, the debug
\* assertion of poll holds, and the root is never removed, detached or
\* re-parented.
C24_NoTreeOperationPanics ==
    /\ [](~panicked)
    /\ [](\A c \in Contexts : RootInPlace(c))
    /\ [][\A w \in Wrappers :
             /\ (PollReturned(MainTask, w) /\ Top(MainTask).in_tree) =>
                   /\ ~no_parent(TreeOf(MainTask))
                   /\ current(TreeOf(MainTask)) # TreeOf(MainTask).root
                   /\ current(TreeOf(MainTask))' = Top(MainTask).old_current
             /\ (PollEntered(MainTask, w) /\ wrappers[w].state = "Polled") =>
                   ~step_in_panics(TreeOf(MainTask), wrappers[w].this_node)
             /\ WrapperDropped(MainTask, w) =>
                   wrappers[w].this_node # TreeOf(MainTask).root]_vars

\* Three nested polls are running, the innermost of a wrapper that was polled
\* before and has stepped into its node; the root has one child and the tree
\* has the nodes of the three wrappers.
C24_Witness ==
    /\ Len(stack[MainTask]) = 3
    /\ \A i \in 1..3 : stack[MainTask][i].in_tree
    /\ ~Top(MainTask).first
    /\ Len(TreeOf(MainTask).arena[1].children) = 1
    /\ active_node_count(TreeOf(MainTask)) = 4
    /\ ~panicked

\* --------------------------------------------------------------------- C25
\* C25: a poll of a wrapper in state Ready panics: no poll of a Ready wrapper
\* ever gets to its inner future, and the only steps that change a live Ready
\* wrapper are its drop and the poll that panics, which changes no tree, no
\* stack, no mutex and no registry; only a poll in state Ready ends this way.
C25_PollAfterReadyPanics ==
    [][\A w \in Wrappers :
          /\ \A t \in RegTasks : PollEntered(t, w) => wrappers[w].state # "Ready"
          /\ (/\ wrappers[w].state = "Ready"
              /\ wrappers[w].life = "alive"
              /\ wrappers'[w] # wrappers[w]) =>
                \/ wrappers'[w].life = "dropped"
                \/ /\ panicked'
                   /\ wrappers'[w] = [wrappers[w] EXCEPT !.out = "panic"]
                   /\ contexts' = contexts
                   /\ stack' = stack
                   /\ mutex' = mutex
                   /\ regvars' = regvars
          /\ (wrappers'[w].out = "panic" /\ wrappers[w].out # "panic") =>
                /\ wrappers[w].state = "Ready"
                /\ wrappers[w].inner = "ready"
                /\ panicked']_vars

\* The wrapper returned Ready in the task of the first tree, which popped its
\* node, and was polled again: the poll panicked and the tree still has its
\* root only.
C25_Witness ==
    /\ panicked
    /\ wrappers[1].state = "Ready"
    /\ wrappers[1].out = "panic"
    /\ wrappers[1].inner = "ready"
    /\ Bound(1)
    /\ active_node_count(TreeOf(1)) = 1
    /\ stack[MainTask] = <<>>

\* --------------------------------------------------------------------- C26
\* C26: init_global_registry called when the global registry is initialized
\* panics and leaves that registry in place: once initialized it stays so,
\* with the configuration of the first call, and it loses an entry only to a
\* register that puts a new one in; the step that panics with no poll
\* involved is a second call, and it changes no registry, no TreeRoot and no
\* tree.
C26_SecondInitPanics ==
    [][/\ registries["global"].alive =>
             /\ registries'["global"].alive
             /\ registries'["global"].verbose = registries["global"].verbose
             /\ registries["global"].contexts \subseteq registries'["global"].contexts
                  \/ \E e \in registries'["global"].contexts :
                        e \notin registries["global"].contexts
       /\ (/\ ~panicked
           /\ panicked'
           /\ wrappers' = wrappers) =>
             /\ registries["global"].alive
             /\ regvars' = regvars
             /\ contexts' = contexts
             /\ Discoverable("global")' = Discoverable("global")]_vars

\* The second call has panicked: the global registry has the configuration
\* of the first call (verbose, which is not the default), and the two trees
\* registered in it, one of a running task, are still discoverable.
C26_Witness ==
    /\ panicked
    /\ \A w \in Wrappers : wrappers[w].out # "panic"
    /\ registries["global"].alive
    /\ registries["global"].verbose # ConfigDefault
    /\ Cardinality(Discoverable("global")) = 2
    /\ \E c \in Discoverable("global") : Bound(c) /\ contexts[c].verbose

\* ------------------------------------------- vocabulary of display claims
\* The start time of node n of the tree.
StartTime(tree, n) == tree.arena[n].start_time

\* The lines of the spans in the output, by their positions.
SpanLines(lines) == {i \in 1..Len(lines) : lines[i].kind = "span"}

\* The position of the line of node n in the output.
LineOf(lines, n) == CHOOSE i \in SpanLines(lines) : lines[i].node = n

\* The ids of a list of serialized nodes.
Ids(sers) == [k \in 1..Len(sers) |-> sers[k].id]

\* The list of nodes is in ascending order of start time.
Ascending(tree, s) ==
    \A i \in 1..Len(s) : \A j \in 1..Len(s) :
        i < j => StartTime(tree, s[i]) <= StartTime(tree, s[j])

\* The serialized node and all below list their children in ascending order
\* of start time, each child of the tree once.
RECURSIVE SerAscending(_, _)
SerAscending(tree, ser) ==
    /\ Ascending(tree, Ids(ser.children))
    /\ SeqToSet(Ids(ser.children)) = Children(tree, ser.id)
    /\ Len(ser.children) = Len(children(tree.arena, ser.id))
    /\ \A k \in 1..Len(ser.children) : SerAscending(tree, ser.children[k])

\* --------------------------------------------------------------------- C27
\* C27: whatever the order in which children were pushed and re-parented, the
\* output of Display has every live node on one line, a node's line after its
\* parent's, and the lines of two siblings in ascending order of start time;
\* the serialization lists the children of every node in ascending order of
\* start time.
C27_ChildrenByStartTime ==
    LET tree == TreeOf(MainTask)
        lines == Display(tree, now)
        ser == Serialize(tree, now)
    IN /\ {lines[i].node : i \in SpanLines(lines)} = LiveNodes(tree)
       /\ Cardinality(SpanLines(lines)) = active_node_count(tree)
       /\ \A a \in LiveNodes(tree) : \A b \in LiveNodes(tree) :
             /\ tree.arena[b].parent = a =>
                   /\ LineOf(lines, a) < LineOf(lines, b)
                   /\ lines[LineOf(lines, b)].indent = lines[LineOf(lines, a)].indent + 2
             /\ (/\ a # b
                 /\ tree.arena[a].parent # NoNode
                 /\ tree.arena[a].parent = tree.arena[b].parent
                 /\ StartTime(tree, a) < StartTime(tree, b)) =>
                   LineOf(lines, a) < LineOf(lines, b)
       /\ SerAscending(tree, ser.tree)
       /\ \A k \in 1..Len(ser.detached) : SerAscending(tree, ser.detached[k])

\* The root has three children that started at three different times, A
\* first, then C, then B, and that were put under the root in the order B, A,
\* C, so that the list of children is C, A, B; the output has them on the
\* lines after the root's in the order A, C, B, and so does the
\* serialization.
C27_Witness ==
    LET tree == TreeOf(MainTask)
        ch == children(tree.arena, tree.root)
        lines == Display(tree, now)
    IN /\ Len(ch) = 3
       /\ StartTime(tree, ch[2]) < StartTime(tree, ch[1])
       /\ StartTime(tree, ch[1]) < StartTime(tree, ch[3])
       /\ Len(lines) = 4
       /\ <<lines[2].node, lines[3].node, lines[4].node>> = <<ch[2], ch[1], ch[3]>>
       /\ Ids(Serialize(tree, now).tree.children) = <<ch[2], ch[1], ch[3]>>

\* --------------------------------------------------------------------- C28
\* C28: two siblings of equal start time are displayed in the order of the
\* arena, the node made first on the earlier line: of two joined futures
\* first polled left, right within one tick of the clock, left is displayed
\* before right.
C28_TiesInArenaOrder ==
    LET tree == TreeOf(MainTask)
        lines == Display(tree, now)
    IN \A a \in LiveNodes(tree) : \A b \in LiveNodes(tree) :
          (/\ a < b
           /\ tree.arena[a].parent # NoNode
           /\ tree.arena[a].parent = tree.arena[b].parent
           /\ StartTime(tree, a) = StartTime(tree, b)) =>
              LineOf(lines, a) < LineOf(lines, b)

\* --------------------------------------------------------------------- C29
\* C29: in the output of Display the line of a long-running node never has
\* the "!!! " mark, the root is long-running and its line never has it, and
\* the line of a node that is not long-running has it exactly when the
\* elapsed time of the node is 10 seconds or more.
C29_MarkOnStaleSpans ==
    LET tree == TreeOf(MainTask)
        lines == Display(tree, now)
    IN \A i \in SpanLines(lines) :
          LET n == lines[i].node
              span == tree.arena[n].span
          IN /\ span.is_long_running => ~lines[i].mark
             /\ n = tree.root => span.is_long_running /\ ~lines[i].mark
             /\ ~span.is_long_running =>
                   (lines[i].mark <=> now - StartTime(tree, n) >= 10)

\* Ten seconds after the root was made: a long-running node as old as the
\* root and the root have no mark, a plain node as old as them has it, and a
\* plain node that started one second later, 9 seconds ago, has none.
C29_Witness ==
    LET tree == TreeOf(MainTask)
        lines == Display(tree, now)
    IN /\ now - StartTime(tree, tree.root) = 10
       /\ ~lines[1].mark
       /\ \E i \in SpanLines(lines) :
             /\ tree.arena[lines[i].node].span.is_long_running
             /\ lines[i].node # tree.root
             /\ lines[i].elapsed = <<10>>
             /\ ~lines[i].mark
       /\ \E i \in SpanLines(lines) :
             /\ ~tree.arena[lines[i].node].span.is_long_running
             /\ lines[i].elapsed = <<10>>
             /\ lines[i].mark
       /\ \E i \in SpanLines(lines) :
             /\ ~tree.arena[lines[i].node].span.is_long_running
             /\ lines[i].elapsed = <<9>>
             /\ ~lines[i].mark

\* --------------------------------------------------------------------- C30
\* C30: in the output of Display the line of the root, at depth 0, has the
\* name of the span and no elapsed time, and every line of a span at depth
\* greater than 0 has the name and the elapsed time.
C30_RootLineWithoutElapsed ==
    LET tree == TreeOf(MainTask)
        lines == Display(tree, now)
    IN \A i \in SpanLines(lines) :
          LET n == lines[i].node IN
          /\ lines[i].name = tree.arena[n].span.name
          /\ lines[i].indent = 0 => lines[i].elapsed = <<>>
          /\ lines[i].indent > 0 => lines[i].elapsed = <<now - StartTime(tree, n)>>

\* --------------------------------------------------------------------- C31
\* The chain of parents of node n of the tree, n included.
RECURSIVE Ancestors(_, _)
Ancestors(tree, n) ==
    IF n = NoNode THEN {}
    ELSE {n} \cup Ancestors(tree, tree.arena[n].parent)

\* Some poll that updates the tree of context c is inside its inner poll.
InPoll(c) == \E i \in 1..Len(stack[c]) : stack[c][i].in_tree

\* C31: in every state the current node of a tree is a live node whose chain
\* of parents ends at the root, and it is the root whenever no poll that
\* updates this tree is running.
C31_CurrentLiveUnderRoot ==
    \A c \in Contexts :
        LET tree == TreeOf(c) IN
        /\ current(tree) \in LiveNodes(tree)
        /\ tree.root \in Ancestors(tree, current(tree))
        /\ Ancestors(tree, current(tree)) \subseteq LiveNodes(tree)
        /\ ~InPoll(c) => current(tree) = tree.root

\* A poll is running and current is its node, a child of the root, while the
\* tree also has a detached root, left behind by a wrapper that returned
\* Ready or was dropped, which is not above current.
C31_Witness ==
    LET tree == TreeOf(MainTask) IN
    /\ Len(stack[MainTask]) = 1
    /\ Top(MainTask).in_tree
    /\ current(tree) # tree.root
    /\ Cardinality(Ancestors(tree, current(tree))) = 2
    /\ detached_node_count(tree) = 1

\* --------------------------------------------------------------------- C32
\* C32: a poll that updates the tree enters its inner poll with current at
\* the node of its wrapper and with the current of its entry kept aside; when
\* the inner poll has returned, current is at the node of the wrapper again;
\* and when the poll returns, Ready or Pending, current is what it was at
\* the entry, also when the poll has moved the node under a new parent.
C32_CurrentRestored ==
    [][\A w \in Wrappers :
          LET tree == TreeOf(MainTask) IN
          /\ (PollEntered(MainTask, w) /\ Top(MainTask)'.in_tree) =>
                /\ current(tree)' = wrappers'[w].this_node
                /\ Top(MainTask)'.old_current = current(tree)
                /\ tree.arena'[current(tree)'].parent = current(tree)
          /\ (PollReturned(MainTask, w) /\ Top(MainTask).in_tree) =>
                /\ current(tree) = wrappers[w].this_node
                /\ current(tree)' = Top(MainTask).old_current
                /\ wrappers'[w].out \in PollResults]_vars

\* The poll of a wrapper is inside its inner poll, where a wrapper that had
\* been pushed before the node of the outer one existed was polled again,
\* was moved under that node and returned Pending: current is the node of
\* the outer wrapper again.
C32_Witness ==
    LET tree == TreeOf(MainTask) IN
    /\ Len(stack[MainTask]) = 1
    /\ Top(MainTask).in_tree
    /\ current(tree) = wrappers[Top(MainTask).w].this_node
    /\ \E w \in Wrappers :
          /\ HasNodeIn(w, MainTask)
          /\ wrappers[w].out = "pending"
          /\ tree.arena[wrappers[w].this_node].parent = current(tree)
          /\ wrappers[w].this_node < current(tree)

\* --------------------------------------------------------------------- C33
\* C33: the pop of a poll that returns Ready, with current = n and n not the
\* root, sets current to the parent of n, takes n out of the children of that
\* parent, removes n and no other node, and leaves each of the k children of
\* n as a detached root with the children it had; every other node is as it
\* was; the count of active nodes goes down by 1 and the count of detached
\* nodes goes up by k.
C33_PopRemovesOneNode ==
    [][\A w \in Wrappers :
          ReturnedReady(MainTask, w) =>
             LET tree == TreeOf(MainTask)
                 n == current(tree)
                 p == tree.arena[n].parent
                 kids == Children(tree, n)
                 k == Cardinality(kids)
                 after == TreeOf(MainTask)'
             IN /\ n # tree.root
                /\ p # NoNode
                /\ current(after) = p
                /\ LiveNodes(after) = LiveNodes(tree) \ {n}
                /\ after.arena[n].removed
                /\ n \notin Children(after, p)
                /\ after.arena[p].children = SeqWithout(tree.arena[p].children, n)
                /\ \A c \in kids :
                      /\ c \in detached_roots(after)
                      /\ after.arena[c].children = tree.arena[c].children
                      /\ Descendants(after, c) = Descendants(tree, c)
                /\ \A m \in LiveNodes(tree) \ ({n, p} \cup kids) :
                      after.arena[m] = tree.arena[m]
                /\ detached_roots(after) = detached_roots(tree) \cup kids
                /\ active_node_count(after) = active_node_count(tree) - 1
                /\ detached_node_count(after) = detached_node_count(tree) + k
                /\ Len(after.arena) = Len(tree.arena)]_vars

\* A wrapper returned Ready while the two wrappers first polled inside it
\* were pending: its node is removed, theirs are the two detached roots, and
\* current is back at the root.
C33_Witness ==
    LET tree == TreeOf(MainTask) IN
    /\ \E w \in Wrappers : wrappers[w].state = "Ready" /\ wrappers[w].out = "ready"
    /\ stack[MainTask] = <<>>
    /\ active_node_count(tree) = 3
    /\ detached_node_count(tree) = 2
    /\ Children(tree, tree.root) = {}
    /\ \A n \in detached_roots(tree) :
          \E w \in Wrappers : HasNodeIn(w, MainTask) /\ wrappers[w].this_node = n

\* --------------------------------------------------------------------- C34
\* step_in without the check: `self.current.prepend(child, ..)` always, which
\* detaches the child and puts it in front of its siblings.
step_in_always(tree, child) ==
    [tree EXCEPT !.arena = Prepend(tree.arena, tree.current, child),
                 !.current = child]

\* The orders in which the elements of a list without repetitions can be.
PermSeqs(s) == {q \in [1..Len(s) -> SeqToSet(s)] : SeqToSet(q) = SeqToSet(s)}

\* The arenas that differ from the arena in the order of the children of the
\* first n nodes at most.
RECURSIVE Reordered(_, _)
Reordered(arena, n) ==
    IF n = 0 THEN {arena}
    ELSE {[a EXCEPT ![n].children = q] :
             a \in Reordered(arena, n - 1), q \in PermSeqs(arena[n].children)}

\* The trees that differ from the tree in the order of siblings at most: what
\* the tree may be when step_in has prepended without the check before.
Variants(tree) ==
    {[tree EXCEPT !.arena = a] : a \in Reordered(tree.arena, Len(tree.arena))}

\* Two trees with the same nodes, the same parent and the same set of
\* children for every node, and the same current.
SameRelation(t1, t2) ==
    /\ t1.root = t2.root
    /\ t1.current = t2.current
    /\ Len(t1.arena) = Len(t2.arena)
    /\ \A n \in Nodes(t1) :
          /\ [t1.arena[n] EXCEPT !.children = <<>>] = [t2.arena[n] EXCEPT !.children = <<>>]
          /\ Len(t1.arena[n].children) = Len(t2.arena[n].children)
          /\ Children(t1, n) = Children(t2, n)

\* The outputs of Display for the two trees have the same lines, and the
\* lines of two siblings that started at different times in the same order.
SameDisplayButTies(t1, t2, t) ==
    \A l1 \in {Display(t1, t)} : \A l2 \in {Display(t2, t)} :
       /\ Len(l1) = Len(l2)
       /\ SeqToSet(l1) = SeqToSet(l2)
       /\ \A a \in LiveNodes(t1) : \A b \in LiveNodes(t1) :
             (/\ t1.arena[a].parent = t1.arena[b].parent
              /\ StartTime(t1, a) # StartTime(t1, b)) =>
                 (LineOf(l1, a) < LineOf(l1, b) <=> LineOf(l2, a) < LineOf(l2, b))

\* The tree operation that this step of the task makes on its tree, made on
\* tree v with step_in_always in the place of step_in.
VariantStep(v, w) ==
    IF PollEntered(MainTask, w) /\ wrappers[w].state = "Initial"
    THEN push(v, wrappers[w].span, now)
    ELSE IF PollEntered(MainTask, w)
    THEN step_in_always(v, wrappers[w].this_node)
    ELSE IF ReturnedReady(MainTask, w) THEN pop(v)
    ELSE IF PollReturned(MainTask, w) THEN step_out(v)
    ELSE remove_and_detach(v, wrappers[w].this_node)

\* This step makes a tree operation for wrapper w.
TreeStep(w) ==
    \/ PollEntered(MainTask, w) /\ Top(MainTask)'.in_tree
    \/ PollReturned(MainTask, w) /\ Top(MainTask).in_tree
    \/ WrapperDropped(MainTask, w) /\ wrappers[w].state = "Polled"

HeldNodes(c) ==
    {wrappers[w].this_node :
        w \in {x \in Wrappers : wrappers[x].life = "alive" /\ HasNodeIn(x, c)}}

\* C35: when the wrappers of a nest are dropped in their context, the
\* outermost first, each drop removes the node of its wrapper and leaves the
\* nodes below it in detached subtrees, with current where it was, until the
\* drops of the wrappers that hold them remove these too: in every state the
\* live nodes of a tree are the root and the nodes of the wrappers that still
\* exist in state Polled, so that nothing of the nest is left, attached or
\* detached, once its wrappers are dropped.
C35_CascadeRemovesNest ==
    /\ [](LiveNodes(TreeOf(MainTask)) = {TreeOf(MainTask).root} \cup HeldNodes(MainTask))
    /\ [][\A w \in Wrappers :
             (WrapperDropped(MainTask, w) /\ wrappers[w].state = "Polled") =>
                LET before == TreeOf(MainTask)
                    after == TreeOf(MainTask)'
                    n == wrappers[w].this_node
                IN /\ current(after) = current(before)
                   /\ after.arena[n].removed
                   /\ HeldNodes(MainTask)' = HeldNodes(MainTask) \ {n}
                   /\ \A m \in Descendants(before, n) :
                         /\ m \in LiveNodes(after)
                         /\ after.root \notin Ancestors(after, m)
                         /\ \E r \in detached_roots(after) : r \in Ancestors(after, m)
                   /\ n \notin Ancestors(before, current(before))]_vars

\* In the middle of a cascade: of a nest of three wrappers, one inside the
\* other, the outermost has been dropped; its node is gone, the node of the
\* second is a detached root with the node of the third below it, and current
\* is the root.
C35_Witness ==
    LET tree == TreeOf(MainTask) IN
    /\ wrappers[1].life = "dropped" /\ wrappers[1].state = "Polled"
    /\ wrappers[2].life = "alive" /\ wrappers[3].life = "alive"
    /\ HasNodeIn(2, MainTask) /\ HasNodeIn(3, MainTask)
    /\ detached_roots(tree) = {wrappers[2].this_node}
    /\ tree.arena[wrappers[3].this_node].parent = wrappers[2].this_node
    /\ active_node_count(tree) = 3
    /\ stack[MainTask] = <<>>
    /\ current(tree) = tree.root

\* --------------------------------------------------------------------- C36
\* The nodes of the tree that have been removed.
RemovedNodes(tree) == Nodes(tree) \ LiveNodes(tree)

Handles(w) ==
    \/ OnStack(w) # OnStack(w)'
    \/ wrappers[w].life = "alive" /\ wrappers'[w].life = "dropped"

\* C37: the state of a wrapper moves only from Initial to Polled, from Polled
\* to Ready and from Initial to Disabled, so Ready and Disabled are never
\* left and Initial is never entered again; a poll or drop of a Disabled
\* wrapper changes no tree and gives the wrapper no node, whatever the
\* verbose setting of the context it happens in.
C37_StateOnlyMovesForward ==
    [][\A w \in Wrappers :
          /\ \/ wrappers'[w].state = wrappers[w].state
             \/ <<wrappers[w].state, wrappers'[w].state>> \in
                   {<<"Initial", "Polled">>, <<"Polled", "Ready">>,
                    <<"Initial", "Disabled">>}
          /\ wrappers[w].state = "Disabled" /\ Handles(w) =>
                /\ \A c \in Contexts : TreeOf(c)' = TreeOf(c)
                /\ wrappers'[w].state = "Disabled"
                /\ wrappers'[w].this_node = NoNode]_vars

\* A Disabled wrapper, disabled by the verbose-off context of one task, is
\* being polled by the task of a context whose verbose setting is on, and no
\* node has been pushed to the tree of that context.
C37_Witness ==
    \E w \in Wrappers : \E t \in Contexts :
        /\ wrappers[w].state = "Disabled"
        /\ stack[t] # <<>> /\ Top(t).w = w
        /\ contexts[current_context(t)].verbose
        /\ active_node_count(TreeOf(current_context(t))) = 1

\* --------------------------------------------------------------------- C38
\* The step is the return of a poll of wrapper w that went straight to the
\* inner future, which returned Ready.
ReturnsReadyDirect(w) ==
    \E t \in Tasks :
        /\ stack[t] # <<>>
        /\ Top(t).w = w
        /\ ~Top(t).in_tree
        /\ Len(stack'[t]) < Len(stack[t])
        /\ wrappers'[w].inner = "ready"

\* C38: when a wrapper in state Polled is polled in another context or in
\* none and its inner future returns Ready, the wrapper stays Polled and its
\* node stays in the tree of its first poll; from then on the node leaves
\* that tree exactly in the step that drops the wrapper in the context of its
\* first poll, and a drop anywhere else leaves it there.
C38_ReadyElsewhereKeepsNode ==
    [][\A w \in CrossWrappers :
          LET home == wrappers[w].this_context
              n == wrappers[w].this_node
          IN wrappers[w].life = "alive" /\ wrappers[w].state = "Polled" =>
                /\ ReturnsReadyDirect(w) =>
                      /\ wrappers'[w].state = "Polled"
                      /\ wrappers'[w].this_node = n
                      /\ wrappers'[w].this_context = home
                      /\ n \in LiveNodes(contexts'[home].tree)
                /\ wrappers[w].inner = "ready" /\ n \in LiveNodes(TreeOf(home)) =>
                      (n \notin LiveNodes(contexts'[home].tree) <=>
                          /\ wrappers'[w].life = "dropped"
                          /\ ContextCorrect(current_context(actor'), w))]_vars

\* A wrapper whose inner future completed in a poll outside the context of
\* its first poll: it is still Polled, no poll of it is running, and its node
\* is a live node of the tree of that context.
C38_Witness ==
    \E w \in CrossWrappers :
        /\ wrappers[w].life = "alive"
        /\ wrappers[w].state = "Polled"
        /\ wrappers[w].inner = "ready"
        /\ ~OnStack(w)
        /\ wrappers[w].this_node \in LiveNodes(TreeOf(wrappers[w].this_context))

\* --------------------------------------------------------------------- C39
\* The trees that Registry::get, collect, collect_anonymous, collect_all and
\* current_tree can return in this state: each is `v.tree().clone()`, a copy
\* made while the mutex of the tree is held.
Snapshots ==
    LET taken ==
           UNION {collect_all(reg) \cup collect_anonymous(reg) : reg \in RegistryIds}
              \cup UNION {get(reg, key) : reg \in RegistryIds, key \in UserKeys}
              \cup UNION {collect(reg, K) : reg \in RegistryIds, K \in KeyTypes}
    IN {s.tree : s \in taken} \cup UNION {current_tree(t) : t \in Tasks}

\* The tree is one that complete tree operations leave behind: root and
\* current are live, and the parent chain of every other live node runs over
\* live nodes, each listed among the children of its parent, up to the root
\* or to a detached root.
Consistent(tree) ==
    /\ tree.root \in LiveNodes(tree)
    /\ tree.current \in LiveNodes(tree)
    /\ \A n \in LiveNodes(tree) \ {tree.root} :
          \A up \in {Ancestors(tree, n)} :
             /\ up \subseteq LiveNodes(tree)
             /\ tree.root \in up \/ up \cap detached_roots(tree) # {}
             /\ \A m \in up :
                   tree.arena[m].parent # NoNode =>
                      m \in SeqToSet(tree.arena[tree.arena[m].parent].children)

\* C39: whenever a snapshot is taken, also while polls are running, the tree
\* it returns is consistent.
C39_SnapshotsConsistent == \A tree \in Snapshots : Consistent(tree)

\* A snapshot taken while a poll is inside its inner future: current is a
\* child of the root, another live node is a detached root, and a third node
\* has been removed.
C39_Witness ==
    /\ stack[MainTask] # <<>>
    /\ \E tree \in Snapshots :
          /\ tree.current \in SeqToSet(tree.arena[tree.root].children)
          /\ detached_roots(tree) # {}
          /\ RemovedNodes(tree) # {}

\* ------------------------------------------------------------ lock steps
\* SpecLocks: NumLockThreads threads run the operations that take a lock, one
\* lock step at a time.  registries[reg].lock is the RwLock around the map of
\* the registry: the thread that holds it for writing, the threads that hold
\* it for reading, and the threads waiting to write (a waiting writer keeps
\* new readers out).  mutex[c] is the thread that holds the mutex of the tree
\* of context c.  stack[t] is empty while thread t is between operations and
\* otherwise holds one frame: the operation, the position in it, the
\* registry, the key, the context whose tree is locked next, and the
\* contexts whose trees are still to be copied.  Thread c is the task of
\* context c; the other threads run outside of any context.
NumLockThreads == 3

InitLocks ==
    /\ contexts = [c \in Contexts |->
                     IF c = 1 THEN TreeContextNew(c, Span(0), ConfigDefault, 0)
                     ELSE NoTreeContext]
    /\ mutex = [c \in Contexts |-> NoHolder]
    /\ wrappers = [w \in Wrappers |-> NoWrapper]
    /\ stack = [t \in 1..NumLockThreads |-> <<>>]
    /\ now = 0
    /\ panicked = FALSE
    /\ actor = 1
    /\ registries =
          [r \in RegistryIds |->
              [alive |-> r = "local", verbose |-> ConfigDefault,
               contexts |-> IF r = "local"
                            THEN {[key |-> AnyKey("i32", 0), context |-> 1]}
                            ELSE {},
               lock |-> [writer |-> NoHolder, readers |-> {}, waiting |-> {}]]]
    /\ roots = [c \in Contexts |->
                  IF c = 1 THEN [TreeRoot("local") EXCEPT !.life = "running"]
                  ELSE NoRoot]

\* Registry::register, register_anonymous (op "register") and Registry::clear
\* (op "clear") up to `self.contexts().write()`: register has made its
\* TreeContext by then; the thread asks for the write lock.
WriteRequest(t, reg, op) ==
    /\ stack[t] = <<>>
    /\ registries[reg].alive
    /\ IF op = "register"
       THEN \E c \in Contexts : \E key \in {AnyKey("i32", 0), AnonymousKey(c)} :
               /\ NextId(c)
               /\ contexts' = [contexts EXCEPT
                     ![c] = TreeContextNew(c, Span(0), registries[reg].verbose, now)]
               /\ roots' = [roots EXCEPT ![c] = [TreeRoot(reg) EXCEPT !.life = "new"]]
               /\ stack' = [stack EXCEPT ![t] =
                     <<[op |-> op, pc |-> "wait_write", reg |-> reg, key |-> key,
                        c |-> c, todo |-> {}]>>]
       ELSE /\ stack' = [stack EXCEPT ![t] =
                  <<[op |-> op, pc |-> "wait_write", reg |-> reg,
                     key |-> AnyKey("i32", 0), c |-> NoContext, todo |-> {}]>>]
            /\ UNCHANGED <<contexts, roots>>
    /\ registries' = [registries EXCEPT ![reg].lock.waiting = @ \cup {t}]
    /\ actor' = t
    /\ UNCHANGED <<mutex, wrappers, now, panicked>>

\* RwLock::write returns: nobody holds the lock.
WriteAcquire(t) ==
    /\ stack[t] # <<>>
    /\ Top(t).pc = "wait_write"
    /\ LET lock == registries[Top(t).reg].lock IN
       /\ lock.writer = NoHolder
       /\ lock.readers = {}
       /\ registries' = [registries EXCEPT
             ![Top(t).reg].lock = [lock EXCEPT !.writer = t, !.waiting = @ \ {t}]]
    /\ stack' = [stack EXCEPT ![t] = <<[Top(t) EXCEPT !.pc = "write"]>>]
    /\ actor' = t
    /\ UNCHANGED <<contexts, mutex, wrappers, now, panicked, roots>>

\* `.insert(AnyKey::new(key), Arc::clone(&context))` or `.clear()` under the
\* write lock, which the end of the statement releases; register_inner then
\* returns the TreeRoot.
WriteRelease(t) ==
    /\ stack[t] # <<>>
    /\ Top(t).pc = "write"
    /\ LET f == Top(t) IN
       IF f.op = "register"
       THEN /\ registries' = [registries EXCEPT
                  ![f.reg].contexts = Insert(@, f.key, f.c),
                  ![f.reg].lock.writer = NoHolder]
            /\ roots' = [roots EXCEPT ![f.c] = TreeRoot(f.reg)]
       ELSE /\ registries' = [registries EXCEPT
                  ![f.reg].contexts = {},
                  ![f.reg].lock.writer = NoHolder]
            /\ UNCHANGED roots
    /\ stack' = [stack EXCEPT ![t] = <<>>]
    /\ actor' = t
    /\ UNCHANGED <<contexts, mutex, wrappers, now, panicked>>

\* Registry::get (op "get") and collect, collect_anonymous, collect_all (op
\* "collect") up to `self.contexts().read()`.
ReadRequest(t, reg, op) ==
    /\ stack[t] = <<>>
    /\ registries[reg].alive
    /\ stack' = [stack EXCEPT ![t] =
          <<[op |-> op, pc |-> "wait_read", reg |-> reg, key |-> AnyKey("i32", 0),
             c |-> NoContext, todo |-> {}]>>]
    /\ actor' = t
    /\ UNCHANGED <<contexts, mutex, wrappers, now, panicked, registries, roots>>

\* RwLock::read returns: no writer holds the lock and none is waiting for it.
\* The entries the operation goes through are those that upgrade.
ReadAcquire(t) ==
    /\ stack[t] # <<>>
    /\ Top(t).pc = "wait_read"
    /\ LET f == Top(t)
           lock == registries[f.reg].lock
           found == IF f.op = "get" THEN get(f.reg, f.key) ELSE collect_all(f.reg)
       IN /\ lock.writer = NoHolder
          /\ lock.waiting = {}
          /\ registries' = [registries EXCEPT ![f.reg].lock.readers = @ \cup {t}]
          /\ stack' = [stack EXCEPT ![t] =
                <<[f EXCEPT !.pc = "read", !.todo = {e.context : e \in found}]>>]
    /\ actor' = t
    /\ UNCHANGED <<contexts, mutex, wrappers, now, panicked, roots>>

\* Under the read lock: the iteration goes on to `v.tree()` of the next entry,
\* or is over, and the end of the statement releases the read lock.
SnapshotNext(t) ==
    /\ stack[t] # <<>>
    /\ Top(t).pc = "read"
    /\ LET f == Top(t) IN
       IF f.todo = {}
       THEN /\ registries' = [registries EXCEPT ![f.reg].lock.readers = @ \ {t}]
            /\ stack' = [stack EXCEPT ![t] = <<>>]
       ELSE /\ \E c \in f.todo :
                  stack' = [stack EXCEPT ![t] =
                     <<[f EXCEPT !.pc = "wait_tree", !.c = c, !.todo = @ \ {c}]>>]
            /\ UNCHANGED registries
    /\ actor' = t
    /\ UNCHANGED <<contexts, mutex, wrappers, now, panicked, roots>>

\* Instrumented::poll and drop, current_tree: `with_context(|c| c.tree()...)`
\* or `c.tree().clone()` in the task of context t, up to `self.tree.lock()`.
TreeRequest(t) ==
    /\ stack[t] = <<>>
    /\ t \in Contexts
    /\ current_context(t) = t
    /\ stack' = [stack EXCEPT ![t] =
          <<[op |-> "tree", pc |-> "wait_tree", reg |-> "local",
             key |-> AnyKey("i32", 0), c |-> t, todo |-> {}]>>]
    /\ actor' = t
    /\ UNCHANGED <<contexts, mutex, wrappers, now, panicked, registries, roots>>

\* TreeContext::tree: `self.tree.lock()` returns, nobody holds the mutex.
TreeAcquire(t) ==
    /\ stack[t] # <<>>
    /\ Top(t).pc = "wait_tree"
    /\ mutex[Top(t).c] = NoHolder
    /\ mutex' = [mutex EXCEPT ![Top(t).c] = t]
    /\ stack' = [stack EXCEPT ![t] = <<[Top(t) EXCEPT !.pc = "holding"]>>]
    /\ actor' = t
    /\ UNCHANGED <<contexts, wrappers, now, panicked, registries, roots>>

\* A tree operation of a task that, holding the mutex of its tree, goes on to
\* clear its registry.
TreeReleaseThenRegistry(t) ==
    /\ stack[t] # <<>>
    /\ Top(t).pc = "holding"
    /\ LET f == Top(t) IN
       IF f.op = "tree"
       THEN /\ stack' = [stack EXCEPT ![t] =
                  <<[f EXCEPT !.op = "clear", !.pc = "wait_write"]>>]
            /\ registries' = [registries EXCEPT ![f.reg].lock.waiting = @ \cup {t}]
            /\ UNCHANGED mutex
       ELSE /\ stack' = [stack EXCEPT ![t] = <<[f EXCEPT !.pc = "read"]>>]
            /\ mutex' = [mutex EXCEPT ![f.c] = NoHolder]
            /\ UNCHANGED registries
    /\ actor' = t
    /\ UNCHANGED <<contexts, wrappers, now, panicked, roots>>

\* Under the mutex of the tree, released at the end of the statement: the
\* clone of a snapshot, or in the task of the context a tree operation of a
\* wrapper (push on the first poll, then step_out or pop, step_in on a later
\* poll, remove_and_detach on drop) or the clone of current_tree.
TreeRelease(t) ==
    /\ stack[t] # <<>>
    /\ Top(t).pc = "holding"
    /\ LET f == Top(t)
           tree == contexts[f.c].tree
           node == tree.root + 1
           ops == IF tree.current # tree.root THEN {step_out(tree), pop(tree)}
                  ELSE IF Len(tree.arena) = 1
                       THEN {tree, push(tree, Span(SpanName), now)}
                  ELSE IF node \in LiveNodes(tree)
                       THEN {tree, step_in(tree, node), remove_and_detach(tree, node)}
                  ELSE {tree}
       IN IF f.op = "tree"
          THEN /\ \E after \in ops : contexts' = [contexts EXCEPT ![f.c].tree = after]
               /\ stack' = [stack EXCEPT ![t] = <<>>]
          ELSE /\ stack' = [stack EXCEPT ![t] = <<[f EXCEPT !.pc = "read"]>>]
               /\ UNCHANGED contexts
    /\ mutex' = [mutex EXCEPT ![Top(t).c] = NoHolder]
    /\ actor' = t
    /\ UNCHANGED <<wrappers, now, panicked, registries, roots>>

NextLocks ==
    \/ \E t \in 1..NumLockThreads : \E reg \in RegistryIds :
          \E op \in {"register", "clear"} : WriteRequest(t, reg, op)
    \/ \E t \in 1..NumLockThreads : WriteAcquire(t)
    \/ \E t \in 1..NumLockThreads : WriteRelease(t)
    \/ \E t \in 1..NumLockThreads : \E reg \in RegistryIds :
          \E op \in {"get", "collect"} : ReadRequest(t, reg, op)
    \/ \E t \in 1..NumLockThreads : ReadAcquire(t)
    \/ \E t \in 1..NumLockThreads : SnapshotNext(t)
    \/ \E t \in 1..NumLockThreads : TreeRequest(t)
    \/ \E t \in 1..NumLockThreads : TreeAcquire(t)
    \/ \E t \in 1..NumLockThreads : TreeRelease(t)
    \/ \E c \in Contexts : Instrument(c)
    \/ \E c \in Contexts : DropRoot(c)
    \/ \E c \in Contexts : InstrumentEnds(c)

SpecLocks == InitLocks /\ [][NextLocks]_vars

\* --------------------------------------------------------------------- C40
\* The threads that thread t is waiting for: the holder of the mutex it wants,
\* the holders of the registry lock it wants to write, or the writer that
\* holds or waits for the registry lock it wants to read.
WaitsFor(t) ==
    IF stack[t] = <<>> THEN {}
    ELSE LET f == Top(t)
             lock == registries[f.reg].lock
         IN CASE f.pc = "wait_tree" -> {mutex[f.c]} \ {NoHolder}
              [] f.pc = "wait_write" -> (lock.readers \cup {lock.writer}) \ {NoHolder}
              [] f.pc = "wait_read" -> (lock.waiting \cup {lock.writer}) \ {NoHolder}
              [] OTHER -> {}

\* C40: no set of threads waits only for each other; a thread that asks for
\* the lock of a registry, or holds it for writing, holds no tree mutex; a
\* thread holds at most one tree mutex, and while it holds one it holds no
\* other lock or the read lock of a registry.
C40_NoDeadlock ==
    /\ \A S \in SUBSET (1..NumLockThreads) :
          S # {} => \E t \in S : WaitsFor(t) = {} \/ ~(WaitsFor(t) \subseteq S)
    /\ \A t \in 1..NumLockThreads :
          /\ stack[t] # <<>> /\ Top(t).pc \in {"wait_write", "write", "wait_read"} =>
                \A c \in Contexts : mutex[c] # t
          /\ Cardinality({c \in Contexts : mutex[c] = t}) <= 1
          /\ \A c \in Contexts : mutex[c] = t =>
                /\ stack[t] # <<>> /\ Top(t).pc = "holding"
                /\ \A reg \in RegistryIds : registries[reg].lock.writer # t
                /\ Top(t).op = "tree" =>
                      \A reg \in RegistryIds : t \notin registries[reg].lock.readers

\* All three kinds of waiting at once: a thread that holds the read lock of
\* the registry waits for the mutex of a tree, which the task of that tree
\* holds for a tree operation, while a third thread waits to write to the
\* registry.
C40_Witness ==
    \E r, w, p \in 1..NumLockThreads :
        /\ stack[r] # <<>> /\ stack[w] # <<>> /\ stack[p] # <<>>
        /\ Top(r).pc = "wait_tree" /\ r \in registries["local"].lock.readers
        /\ Top(p).pc = "holding" /\ Top(p).op = "tree" /\ Top(r).c = Top(p).c
        /\ Top(w).pc = "wait_write" /\ WaitsFor(w) = {r}
        /\ WaitsFor(r) = {p}

====
